---- MODULE Spec2Model ----
(***************************************************************************)
(* Server process lifecycle manager of the dashboard (src/db.js): the      *)
(* registry of child processes, the persisted process state, the console   *)
(* logs (in memory and durable), the live viewers and the start / stop /   *)
(* kill / restart handlers together with the child process callbacks.      *)
(*                                                                         *)
(* One action is one run-to-completion segment of the single-threaded      *)
(* event loop: a handler from its entry to its first real asynchronous     *)
(* wait (fs.remove, fs.ensureDir, npm install, the restart timer), or the  *)
(* continuation after such a wait up to the next one.                      *)
(***************************************************************************)
EXTENDS Integers, Sequences, FiniteSets, TLC

\* ------------------------------------------------------------------ bounds
MaxRuns == 2          \* start sequences (accepted start / restart requests)
MaxEvents == 3        \* inputs from outside: accepted start / restart / stop /
                      \* kill / toggle requests, viewer connections, chunks of
                      \* child output, npm installs, failed I/O calls
maxLogSize == 3       \* in-memory console buffer bound (1000 in the source)
MAX == 4              \* durable console log bound (5000 in the source)
RecentLimit == 2      \* history replayed to a viewer (100 in the source)
MaxTime == 2          \* clock values of the store-level specification

\* ----------------------------------------------------------- fixed entities
Users == {"u1", "adm"}
Servers == {"s1"}
ClientIds == {"c1"}
ExitCodes == {"1"}

\* appUsers rows: isAdmin
\* appUsers rows: the session users and one more account
AppUsers == Users \cup {"u2"}
UserIsAdmin == [u \in AppUsers |-> u = "adm"]
\* appServers rows: ownerId and the users map (owner only, as created)
ServerOwner == [s \in Servers |-> "u1"]
ServerUsers == [s \in Servers |-> {ServerOwner[s]}]

Keys == {<<ServerOwner[s], s>> : s \in Servers}

\* the permissions of a users-map entry that the modelled handlers read
AllRights == [editFiles |-> TRUE, editUsers |-> TRUE]

VARIABLES
    appServers,        \* stored server rows: [id, name, ownerId, users, files]
    isSuspended,       \* id of each stored server -> isSuspended of its row
    runningProcesses,  \* registry: key -> pid of the registered handle
    serverStartTime,   \* key -> Date.now() of spawn / first initialisation
    consoleLogs,       \* in-memory console buffers: key -> sequence of lines
    appConsoleLogs,    \* durable console rows, one array for all keys
    appProcessState,   \* durable process state rows
    clients,           \* wss.clients: client id -> [userId, serverId, view]
    tempDirs,          \* working directories on disk: key -> [exists, files]
    procs,             \* child processes ever spawned: pid -> record
    runs,              \* start sequences: sequence of records with a pc
    cleanups,          \* fs.remove promises of /kill-server still in flight
    now,               \* the clock read by Date.now()
    nevents,           \* events counted against MaxEvents
    last               \* the handler segment that produced this state

vars == <<appServers, isSuspended, runningProcesses, serverStartTime, consoleLogs,
          appConsoleLogs, appProcessState, clients, tempDirs, procs, runs,
          cleanups, now, nevents, last>>

\* ----------------------------------------------------- partial functions
NoFn == [x \in {} |-> 0]
Put(f, k, v) == [x \in (DOMAIN f) \cup {k} |-> IF x = k THEN v ELSE f[x]]
Del(f, k) == [x \in (DOMAIN f) \ {k} |-> f[x]]
Has(f, k) == k \in DOMAIN f
Last(s) == s[Len(s)]

RECURSIVE SelectRows(_, _, _)
\* Array.prototype.filter with a predicate given as the set of kept keys
SelectRows(rows, u, s) ==
    IF rows = <<>> THEN <<>>
    ELSE LET h == Head(rows)
             t == SelectRows(Tail(rows), u, s)
         IN IF h.userId = u /\ h.serverId = s THEN <<h>> \o t ELSE t

RECURSIVE RejectRows(_, _, _)
RejectRows(rows, u, s) ==
    IF rows = <<>> THEN <<>>
    ELSE LET h == Head(rows)
             t == RejectRows(Tail(rows), u, s)
         IN IF h.userId = u /\ h.serverId = s THEN t ELSE <<h>> \o t

RECURSIVE FindIndex(_, _, _, _)
\* Array.prototype.findIndex on the composite key; 0 stands for -1
FindIndex(rows, u, s, i) ==
    IF i > Len(rows) THEN 0
    ELSE IF rows[i].userId = u /\ rows[i].serverId = s THEN i
    ELSE FindIndex(rows, u, s, i + 1)

\* ------------------------------------------------------------ console text
\* Keyword groups of formatConsoleOutput that occur in each message literal.
Kw == [ removeWarnMsg         |-> {"warn", "success"},
        startMsg              |-> {},
        installingUserPkgsMsg |-> {"success"},
        doneUserPkgsMsg       |-> {"success"},
        userPkgsError         |-> {"error", "success"},
        mainFileMissing       |-> {},
        installingMsg         |-> {"success"},
        doneMsg               |-> {"success"},
        installError          |-> {"error", "success"},
        startSuccessMsg       |-> {"success"},
        closeMessage          |-> {},
        spawnErrorMsg         |-> {"error"},
        startErrorMsg         |-> {"error"},
        stopMsg               |-> {"success", "info"},
        restartStopMsg        |-> {"info"},
        restartingMsg         |-> {"info"},
        restartFatalMsg       |-> {"error"},
        killMsg               |-> {"success"},
        killErrorMsg          |-> {"error", "warn"},
        cleanupWarnMsg        |-> {"warn"},
        notRunningMsg         |-> {},
        npmStdout             |-> {},
        npmStderr             |-> {"warn"},
        childPlain            |-> {},
        childError            |-> {"error"} ]

\* A raw console text: the literal, its interpolated argument, its keywords
Raw(text, arg) == [text |-> text, arg |-> arg, kw |-> Kw[text]]

\* What the stdout / stderr of a child process may carry
OutputLogs == {Raw("childPlain", ""), Raw("childError", "")}

\* Faulty variant: a text without any keyword is classified as an error
formatConsoleOutput_DefaultError(log, t) ==
    LET colorClass ==
            IF "error" \in log.kw THEN "console-log-error"
            ELSE IF "warn" \in log.kw THEN "console-log-warn"
            ELSE IF "success" \in log.kw THEN "console-log-success"
            ELSE IF "info" \in log.kw THEN "console-log-info"
            ELSE "console-log-error"
    IN [ts |-> t, sev |-> colorClass, text |-> log.text, arg |-> log.arg]

formatConsoleOutput(log, t) ==
    LET colorClass ==
            IF "error" \in log.kw THEN "console-log-error"
            ELSE IF "warn" \in log.kw THEN "console-log-warn"
            ELSE IF "success" \in log.kw THEN "console-log-success"
            ELSE IF "info" \in log.kw THEN "console-log-info"
            ELSE "console-log-info"
    IN [ts |-> t, sev |-> colorClass, text |-> log.text, arg |-> log.arg]

\* A string sent to a viewer without formatting (no timestamp, no class)
Unformatted(log) == [ts |-> 0, sev |-> "none", text |-> log.text, arg |-> log.arg]
ClearSentinel == [ts |-> 0, sev |-> "none", text |-> "__CLEAR_CONSOLE__", arg |-> ""]

trimLogs(logs) ==
    IF Len(logs) > maxLogSize
    THEN SubSeq(logs, Len(logs) - maxLogSize + 1, Len(logs))
    ELSE logs

\* ------------------------------------------------------------- persistence
upsert(rows, u, s, newDoc) ==
    LET idx == FindIndex(rows, u, s, 1)
    IN IF idx = 0 THEN Append(rows, newDoc)
       ELSE [rows EXCEPT ![idx] = newDoc]

jsonSaveConsoleLog(rows, u, s, content, t) ==
    LET pushed == Append(rows, [userId |-> u, serverId |-> s, timestamp |-> t, content |-> content])
    IN IF Len(pushed) > MAX
       THEN SubSeq(pushed, Len(pushed) - MAX + 1, Len(pushed))
       ELSE pushed

RECURSIVE InsertByTimestamp(_, _)
\* one step of the stable sort on timestamp
InsertByTimestamp(sorted, row) ==
    IF sorted = <<>> THEN <<row>>
    ELSE IF Last(sorted).timestamp <= row.timestamp THEN Append(sorted, row)
    ELSE Append(InsertByTimestamp(SubSeq(sorted, 1, Len(sorted) - 1), row), Last(sorted))

RECURSIVE SortByTimestamp(_)
SortByTimestamp(rows) ==
    IF rows = <<>> THEN <<>>
    ELSE InsertByTimestamp(SortByTimestamp(SubSeq(rows, 1, Len(rows) - 1)), Last(rows))

jsonGetRecentConsoleLogs(rows, u, s, limit) ==
    LET sorted == SortByTimestamp(SelectRows(rows, u, s))
        sliced == IF limit = 0 THEN sorted
                  ELSE IF Len(sorted) > limit
                       THEN SubSeq(sorted, Len(sorted) - limit + 1, Len(sorted))
                       ELSE sorted
    IN [i \in 1..Len(sliced) |-> sliced[i].content]

jsonClearConsoleLogs(rows, u, s) == RejectRows(rows, u, s)

\* Faulty variant: the row is pushed without looking for an existing one
jsonSetProcessState_Appends(rows, u, s, running, startTime) ==
    Append(rows, [userId |-> u, serverId |-> s, isRunning |-> running, startTime |-> startTime])

jsonSetProcessState(rows, u, s, running, startTime) ==
    upsert(rows, u, s, [userId |-> u, serverId |-> s, isRunning |-> running, startTime |-> startTime])

jsonClearProcessState(rows, u, s) == RejectRows(rows, u, s)

\* startTime 0 stands for null
jsonGetProcessState(rows, u, s) ==
    LET idx == FindIndex(rows, u, s, 1)
    IN IF idx = 0 THEN [isRunning |-> FALSE, startTime |-> 0]
       ELSE [isRunning |-> rows[idx].isRunning, startTime |-> rows[idx].startTime]

\* ------------------------------------------------------------ the world
\* The mutable program state as one record, so that a handler segment is a
\* composition of the calls it makes, in the order of the code.
World ==
    [cl |-> consoleLogs, db |-> appConsoleLogs, ws |-> clients,
     rp |-> runningProcesses, ps |-> appProcessState, sst |-> serverStartTime,
     dirs |-> tempDirs, procs |-> procs, runs |-> runs, rm |-> cleanups,
     susp |-> isSuspended, srv |-> appServers, now |-> now]

\* the world w becomes the state; w is computed once
Commit(w) ==
    \E x \in {w} :
        /\ consoleLogs' = x.cl
        /\ appConsoleLogs' = x.db
        /\ clients' = x.ws
        /\ runningProcesses' = x.rp
        /\ appProcessState' = x.ps
        /\ serverStartTime' = x.sst
        /\ tempDirs' = x.dirs
        /\ procs' = x.procs
        /\ runs' = x.runs
        /\ cleanups' = x.rm
        /\ isSuspended' = x.susp
        /\ appServers' = x.srv
        /\ now' = x.now

NoDir == [exists |-> FALSE, files |-> {}]

initializeServerLogs(w, k) ==
    [w EXCEPT !.cl = IF Has(@, k) THEN @ ELSE Put(@, k, <<>>),
              !.sst = IF Has(@, k) THEN @ ELSE Put(@, k, w.now)]

\* consoleLogs[key].push(line)
Push(w, k, line) == [w EXCEPT !.cl[k] = Append(@, line)]

\* trimLogs(consoleLogs[key])
Trim(w, k) == [w EXCEPT !.cl[k] = trimLogs(@)]

saveConsoleLog(w, k, line) ==
    [w EXCEPT !.db = jsonSaveConsoleLog(@, k[1], k[2], line, w.now)]

\* Faulty variant: the durable transcript is kept at a session boundary
clearConsoleLogs_KeepsRows(w, k) == w

clearConsoleLogs(w, k) ==
    [w EXCEPT !.db = jsonClearConsoleLogs(@, k[1], k[2])]

\* Faulty variant: the state is written to every record of the user
setProcessState_AnyServer(w, k, running, startTime) ==
    LET rows == jsonSetProcessState(w.ps, k[1], k[2], running, startTime)
    IN [w EXCEPT !.ps = [i \in 1..Len(rows) |->
           IF rows[i].userId = k[1]
           THEN [rows[i] EXCEPT !.isRunning = running, !.startTime = startTime]
           ELSE rows[i]]]

\* Faulty variant: a not-running state is never written
setProcessState_OnlyRunning(w, k, running, startTime) ==
    IF running
    THEN [w EXCEPT !.ps = jsonSetProcessState(@, k[1], k[2], running, startTime)]
    ELSE w

setProcessState(w, k, running, startTime) ==
    [w EXCEPT !.ps = jsonSetProcessState(@, k[1], k[2], running, startTime)]

getProcessState(k) == jsonGetProcessState(appProcessState, k[1], k[2])

\* ws.onmessage of the console page: the sentinel empties the view
Receive(client, message) ==
    IF message = ClearSentinel THEN [client EXCEPT !.view = <<>>]
    ELSE [client EXCEPT !.view = Append(@, message)]

\* Faulty variant: the broadcast compares the user id only
Send_AnyServer(w, k, message) ==
    [w EXCEPT !.ws = [c \in DOMAIN @ |->
        IF @[c].userId = k[1] THEN Receive(@[c], message) ELSE @[c]]]

\* wss.clients.forEach(client => matching key && OPEN && client.send(message))
Send(w, k, message) ==
    [w EXCEPT !.ws = [c \in DOMAIN @ |->
        IF @[c].userId = k[1] /\ @[c].serverId = k[2]
        THEN Receive(@[c], message) ELSE @[c]]]

Fmt(w, text, arg) == formatConsoleOutput(Raw(text, arg), w.now)

\* push + broadcast of one formatted line, as most call sites do
PushSend(w, k, line) == Send(Push(w, k, line), k, line)
PushSaveSend(w, k, line) == Send(saveConsoleLog(Push(w, k, line), k, line), k, line)
PushTrimSend(w, k, line) == Send(Trim(Push(w, k, line), k), k, line)

\* Date.now() after an awaited call returned: time has passed
Tick(w) == [w EXCEPT !.now = @ + 1]

SetPc(w, r, pc) == [w EXCEPT !.runs[r].pc = pc]
Finish(w, r, res) == [w EXCEPT !.runs[r].pc = "done", !.runs[r].res = res]

\* Faulty variant: the signal is never delivered
Signal_NotDelivered(w, p, sig) == w

\* process.kill(signal) on a handle: the signal is delivered to a live child
Signal(w, p, sig) ==
    IF w.procs[p].status = "alive" THEN [w EXCEPT !.procs[p].sig = sig] ELSE w

\* ------------------------------------------------ startServerInBackground
\* entry of startServerInBackground up to its first await
Begin(w, r) ==
    IF w.dirs[w.runs[r].key].exists THEN SetPc(w, r, "s_rm")
    ELSE SetPc(w, r, "s_mkdir")

\* catch (error) of startServerInBackground, up to `await fs.remove`
Catch(w, r) ==
    LET k == w.runs[r].key IN
    IF ~Has(w.cl, k)
    THEN \* push on undefined throws inside the catch: the promise rejects;
         \* only /restart-server attached a .catch to it
         IF w.runs[r].via = "restart"
         THEN Finish(PushTrimSend(w, k, Fmt(w, "restartFatalMsg", "")), r, "rejected")
         ELSE Finish(w, r, "rejected")
    ELSE SetPc(PushSend(w, k, Fmt(w, "startErrorMsg", "")), r, "s_abort_rm")

\* spawn, registration, process state, success line, handlers wired
Spawn(w, r) ==
    LET k == w.runs[r].key
        w1 == [w EXCEPT !.procs = Put(@, r, [key |-> k, status |-> "alive",
                                              sig |-> "none", line |-> ClearSentinel,
                                              stdin |-> <<>>]),
                        !.rp = Put(@, k, r),
                        !.sst = Put(@, k, w.now)]
        w2 == setProcessState(w1, k, TRUE, w1.sst[k])
        w3 == PushSaveSend(w2, k, Fmt(w2, "startSuccessMsg", ""))
    IN [Finish(w3, r, "spawned") EXCEPT !.now = @ + 1]

\* Faulty variant: the entry script is not looked for
MainCheck_NoScriptCheck(w, r) ==
    LET k == w.runs[r].key
        d == w.dirs[k]
    IN IF "package.json" \in d.files
       THEN SetPc(PushSaveSend(w, k, Fmt(w, "installingMsg", "")), r, "s_install")
       ELSE Spawn(w, r)

\* entry script check, manifest check, then install or spawn
MainCheck(w, r) ==
    LET k == w.runs[r].key
        d == w.dirs[k]
    IN IF ~(d.exists /\ w.runs[r].mainFile \in d.files)
       THEN Finish(PushSaveSend(w, k, Fmt(w, "mainFileMissing", w.runs[r].mainFile)), r, "missing")
       ELSE IF "package.json" \in d.files
       THEN SetPc(PushSaveSend(w, k, Fmt(w, "installingMsg", "")), r, "s_install")
       ELSE Spawn(w, r)

\* F applied to the value of v, v being computed once
Then(v, F(_)) == CHOOSE res \in {F(x) : x \in {v}} : TRUE

\* startup settings, then the install of the listed extra packages
AfterMaterialize(w, r) ==
    LET k == w.runs[r].key IN
    IF w.runs[r].packages
    THEN SetPc(PushSend(w, k, Fmt(w, "installingUserPkgsMsg", "")), r, "s_userpkgs")
    ELSE MainCheck(w, r)

\* stdout / stderr of a finished npm install
NpmLines(w, k, out) ==
    LET w1 == IF "stdout" \in out THEN PushSaveSend(w, k, Fmt(w, "npmStdout", "")) ELSE w
    IN IF "stderr" \in out THEN PushSaveSend(w1, k, Fmt(w1, "npmStderr", "")) ELSE w1

\* `await fs.remove(serverDir)` of the stale directory returned
AfterRm(w, r, ok) ==
    LET k == w.runs[r].key IN
    IF ok THEN SetPc([w EXCEPT !.dirs[k] = NoDir], r, "s_mkdir")
    ELSE SetPc(PushTrimSend(initializeServerLogs(w, k), k, Fmt(w, "removeWarnMsg", "")),
               r, "s_mkdir")

\* `await fs.ensureDir(serverDir)` returned: session boundary, first line
AfterMkdir(w, r, ok) ==
    LET k == w.runs[r].key IN
    IF ~ok THEN Catch(w, r)
    ELSE LET w1 == initializeServerLogs(Tick([w EXCEPT !.dirs[k].exists = TRUE]), k)
             w2 == clearConsoleLogs([w1 EXCEPT !.cl[k] = <<>>], k)
             w3 == Send(w2, k, ClearSentinel)
             w4 == PushSaveSend(w3, k, Fmt(w3, "startMsg", ""))
         IN IF w.runs[r].files # {} THEN SetPc(w4, r, "s_write")
            ELSE AfterMaterialize(w4, r)

\* the loop writing server.files returned
AfterWrite(w, r, ok) ==
    LET k == w.runs[r].key IN
    IF ~ok THEN Catch(w, r)
    ELSE AfterMaterialize([w EXCEPT !.dirs[k] =
             [exists |-> TRUE, files |-> @.files \cup w.runs[r].files]], r)

\* Faulty variant: a failed install of the listed packages aborts the start
AfterUserPkgs_FailureFatal(w, r, ok, out) ==
    LET k == w.runs[r].key IN
    IF ok THEN MainCheck(PushSaveSend(NpmLines(w, k, out), k, Fmt(w, "doneUserPkgsMsg", "")), r)
    ELSE Catch(PushSend(w, k, Fmt(w, "userPkgsError", "")), r)

\* `npm install <packages> --save` returned or failed
AfterUserPkgs(w, r, ok, out) ==
    LET k == w.runs[r].key IN
    IF ok THEN Then(PushSaveSend(NpmLines(w, k, out), k, Fmt(w, "doneUserPkgsMsg", "")),
                    LAMBDA x : MainCheck(x, r))
    ELSE Then(PushSend(w, k, Fmt(w, "userPkgsError", "")), LAMBDA x : MainCheck(x, r))

\* Faulty variant: the start sequence never gets past `npm install`
AfterInstall_NeverSettles(w, r, ok, out) == w

\* Faulty variant: a failed manifest install is logged and the start goes on
AfterInstall_FailureTolerated(w, r, ok, out) ==
    LET k == w.runs[r].key IN
    IF ok THEN Spawn(PushSaveSend(NpmLines(w, k, out), k, Fmt(w, "doneMsg", "")), r)
    ELSE Spawn(PushSaveSend(w, k, Fmt(w, "installError", "")), r)

\* `npm install` of the manifest returned or failed
AfterInstall(w, r, ok, out) ==
    LET k == w.runs[r].key IN
    IF ok THEN Then(PushSaveSend(NpmLines(w, k, out), k, Fmt(w, "doneMsg", "")),
                    LAMBDA x : Spawn(x, r))
    ELSE Then(PushSaveSend(w, k, Fmt(w, "installError", "")), LAMBDA x : Catch(x, r))

\* `await fs.remove(serverDir).catch(() => {})` of the catch block returned
AfterAbortRm(w, r, ok) ==
    LET k == w.runs[r].key IN
    Finish(IF ok THEN [w EXCEPT !.dirs[k] = NoDir] ELSE w, r, "aborted")

\* --------------------------------------------------------------- requests
\* What a start sequence reads from the server record it was handed: the
\* decoded paths of server.files, startupSettings.mainFile (default index.js)
\* and whether startupSettings.packages lists something.  The record is an
\* input that nothing else reads; it is drawn where the sequence first reads it.
StartConfigs ==
    [files : {{}, {"index.js"}, {"index.js", "package.json"}},
     mainFile : {"index.js"}, packages : BOOLEAN]

\* npm output seen by a finished install: which of stdout, stderr is non-empty
NpmOutputs == {{}, {"stdout", "stderr"}}

\* requests as (session user, body.userId, body.serverId)
Requests == {<<a, ServerOwner[s], s>> : a \in Users, s \in Servers}

\* Server.findOne(query): a query without an id finds nothing, whatever else
\* it names; null is the empty record
ServerFindOne(rows, query) ==
    IF "id" \notin DOMAIN query THEN NoFn
    ELSE LET I == {j \in 1..Len(rows) : rows[j].id = query.id}
         IN IF I = {} THEN NoFn ELSE rows[CHOOSE j \in I : \A i \in I : j <= i]

\* Faulty variant: the suspension of the server is not looked at
ensureServerAccess_IgnoresSuspension(actor, target, s) ==
    LET server == ServerFindOne(appServers, [id |-> s])
    IN IF DOMAIN server = {} THEN "no_server"
       ELSE IF server.ownerId # target THEN "not_owner"
       ELSE IF server.ownerId = actor \/ UserIsAdmin[actor] \/ actor \in DOMAIN server.users
       THEN "ok" ELSE "no_access"

ensureServerAccess(actor, target, s) ==
    LET server == ServerFindOne(appServers, [id |-> s])
    IN IF DOMAIN server = {} THEN "no_server"
       ELSE IF server.ownerId # target THEN "not_owner"
       ELSE IF isSuspended[s] /\ ~UserIsAdmin[actor] THEN "suspended"
       ELSE IF server.ownerId = actor \/ UserIsAdmin[actor] \/ actor \in DOMAIN server.users
       THEN "ok" ELSE "no_access"

Did(op, k, actor, res, id) == [op |-> op, key |-> k, actor |-> actor, res |-> res, id |-> id]

NewRun(k, via) ==
    [key |-> k, via |-> via, pc |-> "new", res |-> "none",
     files |-> {}, mainFile |-> "index.js", packages |-> FALSE]

\* the server record as the run reads it
Configure(w, r, cfg) ==
    [w EXCEPT !.runs[r].files = cfg.files, !.runs[r].mainFile = cfg.mainFile,
              !.runs[r].packages = cfg.packages]

\* an event counted against the bound
Event == nevents < MaxEvents /\ nevents' = nevents + 1

\* an I/O call that returns (ok) or fails (an event)
Fault(ok) == IF ok THEN UNCHANGED nevents ELSE Event

\* a request refused before it touched anything
Refused(op, k, actor, res) ==
    /\ last' = Did(op, k, actor, res, 0)
    /\ Commit(World)
    /\ UNCHANGED nevents

\* POST /start-server
StartServer(actor, target, s) ==
    LET k == <<target, s>>
        access == ensureServerAccess(actor, target, s)
    IN IF access # "ok" THEN Refused("start", k, actor, access)
       ELSE IF isSuspended[s] THEN Refused("start", k, actor, "suspended")
       ELSE /\ Len(runs) < MaxRuns
            /\ Event
            /\ LET r == Len(runs) + 1
                   w == [World EXCEPT !.runs = Append(@, NewRun(k, "start"))]
               IN /\ Commit(Begin(w, r))
                  /\ last' = Did("start", k, actor, "accepted", r)

\* the session boundary of /restart-server: clear, sentinel, restarting line
RestartClear(w, k) ==
    LET w1 == clearConsoleLogs([Tick(w) EXCEPT !.cl[k] = <<>>], k)
        w2 == Send(w1, k, ClearSentinel)
    IN PushTrimSend(w2, k, Fmt(w2, "restartingMsg", ""))

\* POST /restart-server
RestartServer(actor, target, s) ==
    LET k == <<target, s>>
        access == ensureServerAccess(actor, target, s)
    IN IF access # "ok" THEN Refused("restart", k, actor, access)
       ELSE /\ Len(runs) < MaxRuns
            /\ Event
            /\ LET r == Len(runs) + 1
                   w0 == initializeServerLogs(
                           [World EXCEPT !.runs = Append(@, NewRun(k, "restart"))], k)
               IN IF Has(w0.rp, k)
                  THEN LET w1 == PushTrimSend(w0, k, Fmt(w0, "restartStopMsg", ""))
                           w2 == Signal(w1, w1.rp[k], "SIGTERM")
                           w3 == [w2 EXCEPT !.rp = Del(@, k)]
                       IN /\ Commit(SetPc(w3, r, "r_delay"))
                          /\ last' = Did("restart", k, actor, "stopping", r)
                  ELSE /\ Commit(IF w0.dirs[k].exists THEN SetPc(w0, r, "r_rm")
                                 ELSE Begin(RestartClear(w0, k), r))
                       /\ last' = Did("restart", k, actor, "accepted", r)

\* Faulty variant: a stop without a registry entry resets the process state
StopServer_ResetsState(actor, target, s, ok) ==
    LET k == <<target, s>>
        access == ensureServerAccess(actor, target, s)
    IN IF access # "ok" THEN ok /\ Refused("stop", k, actor, access)
       ELSE IF ~Has(runningProcesses, k)
       THEN /\ ok
            /\ last' = Did("stop", k, actor, "already_stopped", 0)
            /\ Commit(setProcessState(World, k, FALSE, 0))
            /\ UNCHANGED nevents
       ELSE /\ Event
            /\ LET p == runningProcesses[k]
                   w1 == Signal(World, p, "SIGTERM")
                   w2 == [w1 EXCEPT !.rp = Del(@, k)]
                   w3 == setProcessState(w2, k, FALSE, 0)
                   line == Fmt(w3, "stopMsg", "")
                   w4 == Trim(saveConsoleLog(Push(w3, k, line), k, line), k)
               IN IF ok
                  THEN /\ Commit(Send([w4 EXCEPT !.dirs[k] = NoDir], k, Unformatted(Raw("stopMsg", ""))))
                       /\ last' = Did("stop", k, actor, "stopped", p)
                  ELSE /\ Commit(w4)
                       /\ last' = Did("stop", k, actor, "threw", p)

\* POST /stop-server; ok: fs.removeSync of the working directory returned
StopServer(actor, target, s, ok) ==
    LET k == <<target, s>>
        access == ensureServerAccess(actor, target, s)
    IN IF access # "ok" THEN ok /\ Refused("stop", k, actor, access)
       ELSE IF ~Has(runningProcesses, k) THEN ok /\ Refused("stop", k, actor, "already_stopped")
       ELSE /\ Event
            /\ LET p == runningProcesses[k]
                   w1 == Signal(World, p, "SIGTERM")
                   w2 == [w1 EXCEPT !.rp = Del(@, k)]
                   w3 == setProcessState(w2, k, FALSE, 0)
                   line == Fmt(w3, "stopMsg", "")
                   w4 == Trim(saveConsoleLog(Push(w3, k, line), k, line), k)
               IN IF ok
                  THEN /\ Commit(Send([w4 EXCEPT !.dirs[k] = NoDir], k, Unformatted(Raw("stopMsg", ""))))
                       /\ last' = Did("stop", k, actor, "stopped", p)
                  ELSE /\ Commit(w4)
                       /\ last' = Did("stop", k, actor, "threw", p)

\* Faulty variant: a failing kill() aborts the request before the registry
\* entry is deleted and the cleanup is scheduled
KillServer_AbortsOnFailure(actor, target, s, ok) ==
    LET k == <<target, s>>
        access == ensureServerAccess(actor, target, s)
    IN IF access # "ok" THEN ok /\ Refused("kill", k, actor, access)
       ELSE /\ Event
            /\ LET w0 == initializeServerLogs(World, k) IN
               IF Has(w0.rp, k)
               THEN LET p == w0.rp[k]
                        w1 == PushTrimSend(w0, k, Fmt(w0, "killMsg", ""))
                        w2 == IF ok THEN Signal(w1, p, "SIGKILL")
                              ELSE PushTrimSend(w1, k, Fmt(w1, "killErrorMsg", ""))
                        w3 == [w2 EXCEPT !.rp = Del(@, k),
                                         !.rm = @ \cup {[key |-> k, warn |-> TRUE]}]
                    IN /\ Commit(IF ok THEN w3 ELSE w2)
                       /\ last' = Did("kill", k, actor, IF ok THEN "killed" ELSE "kill_failed", p)
               ELSE /\ ok
                    /\ Commit([PushTrimSend(w0, k, Fmt(w0, "notRunningMsg", ""))
                                 EXCEPT !.rm = @ \cup {[key |-> k, warn |-> FALSE]}])
                    /\ last' = Did("kill", k, actor, "not_running", 0)

\* POST /kill-server; ok: serverProcess.kill('SIGKILL') did not throw
KillServer(actor, target, s, ok) ==
    LET k == <<target, s>>
        access == ensureServerAccess(actor, target, s)
    IN IF access # "ok" THEN ok /\ Refused("kill", k, actor, access)
       ELSE /\ Event
            /\ LET w0 == initializeServerLogs(World, k) IN
               IF Has(w0.rp, k)
               THEN LET p == w0.rp[k]
                        w1 == PushTrimSend(w0, k, Fmt(w0, "killMsg", ""))
                        w2 == IF ok THEN Signal(w1, p, "SIGKILL")
                              ELSE PushTrimSend(w1, k, Fmt(w1, "killErrorMsg", ""))
                        w3 == [w2 EXCEPT !.rp = Del(@, k),
                                         !.rm = @ \cup {[key |-> k, warn |-> TRUE]}]
                    IN /\ Commit(w3)
                       /\ last' = Did("kill", k, actor, IF ok THEN "killed" ELSE "kill_failed", p)
               ELSE /\ ok
                    /\ Commit([PushTrimSend(w0, k, Fmt(w0, "notRunningMsg", ""))
                                 EXCEPT !.rm = @ \cup {[key |-> k, warn |-> FALSE]}])
                    /\ last' = Did("kill", k, actor, "not_running", 0)

\* POST /admin/toggle-server-suspension
ToggleSuspension(actor, s) ==
    /\ UserIsAdmin[actor]
    /\ IF ~Has(isSuspended, s) THEN Refused("toggle", <<ServerOwner[s], s>>, actor, "no_server")
       ELSE /\ Event
            /\ Commit([World EXCEPT !.susp[s] = ~@])
            /\ last' = Did("toggle", <<ServerOwner[s], s>>, actor, "toggled", 0)

\* Server.deleteOne({ id }): the row of the server is filtered out
RejectId(rows, id) == SelectSeq(rows, LAMBDA r : r.id # id)

deleteOne(w, s) == [w EXCEPT !.susp = Del(@, s), !.srv = RejectId(@, s)]

\* POST /delete-server: kill() and unregister the handle of the key if there
\* is one, then Server.deleteOne
DeleteServer(actor, target, s) ==
    LET k == <<target, s>>
        access == ensureServerAccess(actor, target, s)
    IN IF access # "ok" THEN Refused("delete", k, actor, access)
       ELSE IF ServerOwner[s] # actor /\ ~UserIsAdmin[actor]
       THEN Refused("delete", k, actor, "forbidden")
       ELSE /\ Event
            /\ LET w1 == IF Has(runningProcesses, k)
                         THEN [Signal(World, runningProcesses[k], "SIGTERM")
                                 EXCEPT !.rp = Del(@, k)]
                         ELSE World
               IN Commit(deleteOne(w1, s))
            /\ last' = Did("delete", k, actor, "deleted", 0)

\* POST /admin/delete-server: Server.deleteOne and nothing else
AdminDeleteServer(actor, s) ==
    /\ UserIsAdmin[actor]
    /\ IF ~Has(isSuspended, s)
       THEN Refused("admin_delete", <<ServerOwner[s], s>>, actor, "no_server")
       ELSE /\ Event
            /\ Commit(deleteOne(World, s))
            /\ last' = Did("admin_delete", <<ServerOwner[s], s>>, actor, "deleted", 0)

\* ------------------------------------------------- continuations of a run
\* the 1 s timer of /restart-server fired
RestartDelay(r) ==
    /\ r \in 1..Len(runs) /\ runs[r].pc = "r_delay"
    /\ LET k == runs[r].key IN
       Commit(IF tempDirs[k].exists THEN SetPc(World, r, "r_rm")
              ELSE Begin(RestartClear(World, k), r))
    /\ last' = Did("restart_delay", runs[r].key, "", "", r)
    /\ UNCHANGED nevents

\* `await fs.remove(serverSpecificTempDir).catch(...)` of /restart-server returned
RestartRm(r, ok) ==
    /\ r \in 1..Len(runs) /\ runs[r].pc = "r_rm"
    /\ Fault(ok)
    /\ LET k == runs[r].key
           w == IF ok THEN [World EXCEPT !.dirs[k] = NoDir] ELSE World
       IN Commit(Begin(RestartClear(w, k), r))
    /\ last' = Did("restart_rm", runs[r].key, "", IF ok THEN "ok" ELSE "failed", r)

StartRm(r, ok) ==
    /\ r \in 1..Len(runs) /\ runs[r].pc = "s_rm"
    /\ Fault(ok)
    /\ Commit(AfterRm(World, r, ok))
    /\ last' = Did("start_rm", runs[r].key, "", IF ok THEN "ok" ELSE "failed", r)

StartMkdir(r, ok, cfg) ==
    /\ r \in 1..Len(runs) /\ runs[r].pc = "s_mkdir"
    /\ Fault(ok)
    /\ Commit(AfterMkdir(IF ok THEN Configure(World, r, cfg) ELSE World, r, ok))
    /\ last' = Did("start_mkdir", runs[r].key, "", IF ok THEN "ok" ELSE "failed", r)

StartWrite(r, ok) ==
    /\ r \in 1..Len(runs) /\ runs[r].pc = "s_write"
    /\ Fault(ok)
    /\ Commit(AfterWrite(World, r, ok))
    /\ last' = Did("start_write", runs[r].key, "", IF ok THEN "ok" ELSE "failed", r)

StartUserPkgs(r, ok, out) ==
    /\ r \in 1..Len(runs) /\ runs[r].pc = "s_userpkgs"
    /\ Event
    /\ ok \/ out = {}
    /\ Commit(AfterUserPkgs(World, r, ok, out))
    /\ last' = Did("start_userpkgs", runs[r].key, "", IF ok THEN "ok" ELSE "failed", r)

StartInstall(r, ok, out) ==
    /\ r \in 1..Len(runs) /\ runs[r].pc = "s_install"
    /\ Event
    /\ ok \/ out = {}
    /\ Commit(AfterInstall(World, r, ok, out))
    /\ last' = Did("start_install", runs[r].key, "", IF ok THEN "ok" ELSE "failed", r)

StartAbortRm(r, ok) ==
    /\ r \in 1..Len(runs) /\ runs[r].pc = "s_abort_rm"
    /\ Fault(ok)
    /\ Commit(AfterAbortRm(World, r, ok))
    /\ last' = Did("start_abort_rm", runs[r].key, "", IF ok THEN "ok" ELSE "failed", r)

\* the fs.remove promise of /kill-server settled
KillCleanup(c, ok) ==
    /\ c \in cleanups
    /\ Fault(ok)
    /\ LET k == c.key
           w == [World EXCEPT !.rm = @ \ {c}]
       IN Commit(IF ok THEN [w EXCEPT !.dirs[k] = NoDir]
                 ELSE IF c.warn THEN PushTrimSend(w, k, Fmt(w, "cleanupWarnMsg", ""))
                 ELSE w)
    /\ last' = Did("kill_cleanup", c.key, "", IF ok THEN "ok" ELSE "failed", 0)

\* ------------------------------------------------------------ child events
\* serverProcess.stdout.on('data') / serverProcess.stderr.on('data')
ChildOutput(p, log) ==
    /\ Has(procs, p) /\ procs[p].status = "alive"
    /\ Event
    /\ LET k == procs[p].key
           line == formatConsoleOutput(log, now)
       IN Commit(saveConsoleLog(PushTrimSend(World, k, line), k, line))
    /\ last' = Did("output", procs[p].key, "", "", p)

\* exit codes a child can report: null after a signal, -2 after a failed spawn
CodesFor(p) ==
    IF procs[p].status = "failed" THEN {"-2"}
    ELSE IF procs[p].sig # "none" THEN {"null"}
    ELSE ExitCodes

\* Faulty variant: the close callback leaves the registry entry in place
ChildClose_KeepsEntry(p, code) ==
    /\ Has(procs, p) /\ procs[p].status \in {"alive", "failed"}
    /\ code \in CodesFor(p)
    /\ LET k == procs[p].key
           closeMessage == Fmt(World, "closeMessage", code)
           w1 == Trim(Push(World, k, closeMessage), k)
           w3 == setProcessState(w1, k, FALSE, 0)
       IN Commit([w3 EXCEPT !.procs[p].status = "closing", !.procs[p].line = closeMessage])
    /\ last' = Did("close", procs[p].key, "", code, p)
    /\ UNCHANGED nevents

\* serverProcess.on('close'), up to `await fs.remove`
ChildClose(p, code) ==
    /\ Has(procs, p) /\ procs[p].status \in {"alive", "failed"}
    /\ code \in CodesFor(p)
    /\ LET k == procs[p].key
           closeMessage == Fmt(World, "closeMessage", code)
           w1 == Trim(Push(World, k, closeMessage), k)
           w2 == [w1 EXCEPT !.rp = Del(@, k)]
           w3 == setProcessState(w2, k, FALSE, 0)
       IN Commit([w3 EXCEPT !.procs[p].status = "closing", !.procs[p].line = closeMessage])
    /\ last' = Did("close", procs[p].key, "", code, p)
    /\ UNCHANGED nevents

\* serverProcess.on('close') after `await fs.remove(serverDir).catch(() => {})`
ChildCloseDone(p, ok) ==
    /\ Has(procs, p) /\ procs[p].status = "closing"
    /\ Fault(ok)
    /\ LET k == procs[p].key
           w1 == IF ok THEN [World EXCEPT !.dirs[k] = NoDir] ELSE World
       IN Commit([Send(w1, k, procs[p].line) EXCEPT !.procs[p].status = "closed"])
    /\ last' = Did("close_done", procs[p].key, "", procs[p].line.arg, p)

\* serverProcess.on('error'): the child could not be spawned
ChildError(p) ==
    /\ Has(procs, p) /\ procs[p].status = "alive" /\ procs[p].sig = "none"
    /\ Event
    /\ LET k == procs[p].key
           errorMsg == Fmt(World, "spawnErrorMsg", "")
           w1 == Trim(Push(World, k, errorMsg), k)
           w2 == [w1 EXCEPT !.rp = Del(@, k)]
           w3 == setProcessState(w2, k, FALSE, 0)
           w4 == [w3 EXCEPT !.dirs[k] = NoDir]
       IN Commit([Send(w4, k, errorMsg) EXCEPT !.procs[p].status = "failed"])
    /\ last' = Did("error", procs[p].key, "", "", p)

\* ------------------------------------------------------------------ viewers
\* wss.on('connection')
ViewerAttach(c, u, s) ==
    /\ ~Has(clients, c)
    /\ Event
    /\ LET k == <<u, s>>
           w == initializeServerLogs(World, k)
           recent == jsonGetRecentConsoleLogs(appConsoleLogs, u, s, RecentLimit)
       IN Commit([w EXCEPT !.ws = Put(@, c, [userId |-> u, serverId |-> s, view |-> recent])])
    /\ last' = Did("attach", <<u, s>>, "", "", 0)

\* the socket closed: the client leaves wss.clients
ViewerDetach(c) ==
    /\ Has(clients, c)
    /\ Commit([World EXCEPT !.ws = Del(@, c)])
    /\ last' = Did("detach", <<clients[c].userId, clients[c].serverId>>, "", "", 0)
    /\ UNCHANGED nevents

\* The console page sends the typed command over the socket (ws.send(command));
\* wss.on('connection') registers no 'message' listener, so the server runs no
\* code for it: nothing is written to any child's stdin pipe.
Commands == {"help"}

ViewerInput(c, command) ==
    /\ Has(clients, c)
    /\ Commit(World)
    /\ last' = Did("input", <<clients[c].userId, clients[c].serverId>>, c, command, 0)
    /\ UNCHANGED nevents

\* ------------------------------------------------------------ specification
\* the rows of Servers as /create-server stored them
ServerRows ==
    LET id == CHOOSE s \in Servers : TRUE
    IN <<[id |-> id, name |-> "n1", ownerId |-> ServerOwner[id],
          users |-> [u \in ServerUsers[id] |-> AllRights], files |-> NoFn]>>

Init ==
    /\ appServers = ServerRows
    /\ isSuspended = [s \in Servers |-> FALSE]
    /\ runningProcesses = NoFn
    /\ serverStartTime = NoFn
    /\ consoleLogs = NoFn
    /\ appConsoleLogs = <<>>
    /\ appProcessState = <<>>
    /\ clients = NoFn
    /\ tempDirs = [k \in Keys |-> NoDir]
    /\ procs = NoFn
    /\ runs = <<>>
    /\ cleanups = {}
    /\ now = 1
    /\ nevents = 0
    /\ last = Did("init", <<"", "">>, "", "", 0)

Next ==
    \/ \E q \in Requests : StartServer(q[1], q[2], q[3])
    \/ \E q \in Requests : RestartServer(q[1], q[2], q[3])
    \/ \E q \in Requests, ok \in BOOLEAN : StopServer(q[1], q[2], q[3], ok)
    \/ \E q \in Requests, ok \in BOOLEAN : KillServer(q[1], q[2], q[3], ok)
    \/ \E a \in Users, s \in Servers : ToggleSuspension(a, s)
    \/ \E q \in Requests : DeleteServer(q[1], q[2], q[3])
    \/ \E a \in Users, s \in Servers : AdminDeleteServer(a, s)
    \/ \E r \in 1..MaxRuns : RestartDelay(r)
    \/ \E r \in 1..MaxRuns, ok \in BOOLEAN : RestartRm(r, ok)
    \/ \E r \in 1..MaxRuns, ok \in BOOLEAN : StartRm(r, ok)
    \/ \E r \in 1..MaxRuns, ok \in BOOLEAN, cfg \in StartConfigs : StartMkdir(r, ok, cfg)
    \/ \E r \in 1..MaxRuns, ok \in BOOLEAN : StartWrite(r, ok)
    \/ \E r \in 1..MaxRuns, ok \in BOOLEAN, out \in NpmOutputs : StartUserPkgs(r, ok, out)
    \/ \E r \in 1..MaxRuns, ok \in BOOLEAN, out \in NpmOutputs : StartInstall(r, ok, out)
    \/ \E r \in 1..MaxRuns, ok \in BOOLEAN : StartAbortRm(r, ok)
    \/ \E c \in cleanups, ok \in BOOLEAN : KillCleanup(c, ok)
    \/ \E p \in 1..MaxRuns, log \in OutputLogs : ChildOutput(p, log)
    \/ \E p \in 1..MaxRuns, code \in ExitCodes \cup {"null", "-2"} : ChildClose(p, code)
    \/ \E p \in 1..MaxRuns, ok \in BOOLEAN : ChildCloseDone(p, ok)
    \/ \E p \in 1..MaxRuns : ChildError(p)
    \/ \E c \in ClientIds, k \in Keys : ViewerAttach(c, k[1], k[2])
    \/ \E c \in ClientIds : ViewerDetach(c)
    \/ \E c \in ClientIds, command \in Commands : ViewerInput(c, command)

Spec == Init /\ [][Next]_vars

\* ------------------------------------------- the durable store on its own
\* The console log helpers of db.js called directly, for any composite key:
\* the store does not know which servers exist.
StoreKeys == {<<"u1", "s1">>, <<"u1", "s2">>}

\* saveConsoleLog(userId, serverId, content)
StoreSave(k, log) ==
    /\ appConsoleLogs' = jsonSaveConsoleLog(appConsoleLogs, k[1], k[2],
                                            formatConsoleOutput(log, now), now)
    /\ last' = Did("save", k, "", log.text, 0)
    /\ UNCHANGED <<appServers, isSuspended, runningProcesses, serverStartTime, consoleLogs,
                   appProcessState, clients, tempDirs, procs, runs, cleanups,
                   now, nevents>>

\* clearConsoleLogs(userId, serverId)
StoreClear(k) ==
    /\ appConsoleLogs' = jsonClearConsoleLogs(appConsoleLogs, k[1], k[2])
    /\ last' = Did("clear", k, "", "", 0)
    /\ UNCHANGED <<appServers, isSuspended, runningProcesses, serverStartTime, consoleLogs,
                   appProcessState, clients, tempDirs, procs, runs, cleanups,
                   now, nevents>>

\* time passes between two calls
StoreTick ==
    /\ now < MaxTime
    /\ now' = now + 1
    /\ last' = Did("tick", <<"", "">>, "", "", 0)
    /\ UNCHANGED <<appServers, isSuspended, runningProcesses, serverStartTime, consoleLogs,
                   appConsoleLogs, appProcessState, clients, tempDirs, procs,
                   runs, cleanups, nevents>>

StoreNext ==
    \/ \E k \in StoreKeys, log \in OutputLogs : StoreSave(k, log)
    \/ \E k \in StoreKeys : StoreClear(k)
    \/ StoreTick

StoreSpec == Init /\ [][StoreNext]_vars

\* --------------------------------------------- the process state store alone
\* setProcessState and clearProcessState of db.js called directly for any key;
\* a start time is null (0) or a time stamp
StoreSetState(k, running, startTime) ==
    /\ appProcessState' = jsonSetProcessState(appProcessState, k[1], k[2], running, startTime)
    /\ last' = Did("set_state", k, "", running, startTime)
    /\ UNCHANGED <<appServers, isSuspended, runningProcesses, serverStartTime, consoleLogs,
                   appConsoleLogs, clients, tempDirs, procs, runs, cleanups, now, nevents>>

StoreClearState(k) ==
    /\ appProcessState' = jsonClearProcessState(appProcessState, k[1], k[2])
    /\ last' = Did("clear_state", k, "", "", 0)
    /\ UNCHANGED <<appServers, isSuspended, runningProcesses, serverStartTime, consoleLogs,
                   appConsoleLogs, clients, tempDirs, procs, runs, cleanups, now, nevents>>

StateNext ==
    \/ \E k \in StoreKeys, running \in BOOLEAN, startTime \in 0..MaxTime :
          StoreSetState(k, running, startTime)
    \/ \E k \in StoreKeys : StoreClearState(k)

StateSpec == Init /\ [][StateNext]_vars

\* ------------------------------------------------------ the files of a server
\* server.files maps an encoded path to the content of the file.  A string is
\* modelled as the sequence of its characters, so that replace, startsWith,
\* substring and split are computed as JavaScript computes them.
MaxDepth == 3
MaxFiles == 3
MaxFileOps == 1

DotToken == <<"_", "_", "D", "O", "T", "_", "_">>

StartsWith(str, prefix) ==
    Len(prefix) <= Len(str) /\ SubSeq(str, 1, Len(prefix)) = prefix

\* str.substring(n)
Substring(str, n) == SubSeq(str, n + 1, Len(str))

\* filePath.replace(/\./g, '__DOT__')
RECURSIVE encodeFilePathKey(_)
encodeFilePathKey(filePath) ==
    IF filePath = <<>> THEN <<>>
    ELSE (IF Head(filePath) = "." THEN DotToken ELSE <<Head(filePath)>>)
           \o encodeFilePathKey(Tail(filePath))

\* encodedKey.replace(/__DOT__/g, '.'): leftmost matches, not overlapping
RECURSIVE decodeFilePathKey(_)
decodeFilePathKey(encodedKey) ==
    IF encodedKey = <<>> THEN <<>>
    ELSE IF StartsWith(encodedKey, DotToken)
    THEN <<".">> \o decodeFilePathKey(Substring(encodedKey, Len(DotToken)))
    ELSE <<Head(encodedKey)>> \o decodeFilePathKey(Tail(encodedKey))

LastIndexOf(str, ch) ==
    LET I == {i \in 1..Len(str) : str[i] = ch}
    IN IF I = {} THEN 0 ELSE CHOOSE i \in I : \A j \in I : j <= i

\* path.dirname and path.basename of a relative path without a trailing '/'
dirname(p) ==
    LET i == LastIndexOf(p, "/")
    IN IF i = 0 THEN <<".">> ELSE IF i = 1 THEN <<"/">> ELSE SubSeq(p, 1, i - 1)

basename(p) == Substring(p, LastIndexOf(p, "/"))

\* path.join(dir, name) for a name that is a single segment other than . and ..
join(dir, name) == IF dir = <<".">> THEN name ELSE dir \o <<"/">> \o name

\* str.trim()
RECURSIVE trim(_)
trim(str) ==
    IF str = <<>> THEN <<>>
    ELSE IF Head(str) = " " THEN trim(Tail(str))
    ELSE IF str[Len(str)] = " " THEN trim(SubSeq(str, 1, Len(str) - 1))
    ELSE str

Includes(str, ch) == \E i \in 1..Len(str) : str[i] = ch

\* str.split('/').filter(p => p)
RECURSIVE Parts(_)
Parts(str) ==
    IF str = <<>> THEN <<>>
    ELSE LET I == {i \in 1..Len(str) : str[i] = "/"}
             n == IF I = {} THEN Len(str) + 1 ELSE CHOOSE i \in I : \A j \in I : i <= j
             first == SubSeq(str, 1, n - 1)
             rest == Parts(Substring(str, n))
         IN IF first = <<>> THEN rest ELSE <<first>> \o rest

\* file and directory names; "a" is a string prefix of "a.b"
Names == {<<"a">>, <<"a", ".", "b">>}

RECURSIVE PathsOfDepth(_)
PathsOfDepth(n) ==
    IF n = 1 THEN Names
    ELSE {join(d, name) : d \in PathsOfDepth(n - 1), name \in Names}

Paths == UNION {PathsOfDepth(n) : n \in 1..MaxDepth}

\* the files maps a server can hold: the content of a file names the path it
\* was written under
Stores ==
    {[k \in {encodeFilePathKey(q) : q \in P} |-> decodeFilePathKey(k)] :
        P \in {Q \in SUBSET Paths : Cardinality(Q) <= MaxFiles}}

\* the server the file requests are about, and its row
FileServer == CHOOSE s \in Servers : TRUE

FilesOf(rows) ==
    LET i == CHOOSE j \in 1..Len(rows) : rows[j].id = FileServer IN rows[i].files

\* server.save(): upsert of the row with the files map of the request
SaveFiles(rows, files) ==
    [j \in 1..Len(rows) |->
        IF rows[j].id = FileServer THEN [rows[j] EXCEPT !.files = files] ELSE rows[j]]

\* Faulty variant: no key is ever found under a prefix
HasKeyUnder_Never(files, prefix) == FALSE

HasKeyUnder(files, prefix) == \E k \in DOMAIN files : StartsWith(k, prefix)

\* Faulty variant: the keys are copied to the new prefix and the old ones stay
RenameKeys_KeepsOld(files, keysToRename, oldPrefix, newPrefix) ==
    [k \in DOMAIN files \cup {newPrefix \o Substring(q, Len(oldPrefix)) : q \in keysToRename} |->
        IF k \in DOMAIN files THEN files[k]
        ELSE files[oldPrefix \o Substring(k, Len(newPrefix))]]

\* the loop of /rename-file over keysToRename: set the new key, delete the old
RECURSIVE RenameKeys(_, _, _, _)
RenameKeys(files, keysToRename, oldPrefix, newPrefix) ==
    IF keysToRename = {} THEN files
    ELSE LET oldKey == CHOOSE k \in keysToRename : TRUE
             newKey == newPrefix \o Substring(oldKey, Len(oldPrefix))
         IN RenameKeys(Del(Put(files, newKey, files[oldKey]), oldKey),
                       keysToRename \ {oldKey}, oldPrefix, newPrefix)

NewNames == Names \cup {<<>>, <<" ">>, <<"a", "/", "b">>}

FileDid(op, path, name, res, out) ==
    [op |-> op, path |-> path, name |-> name, res |-> res, out |-> out]

\* a file request ran: at most MaxFileOps of them in a behaviour
FileStep(op, path, name, res, out, files) ==
    /\ nevents' = nevents + 1
    /\ last' = FileDid(op, path, name, res, out)
    /\ appServers' = SaveFiles(appServers, files)
    /\ UNCHANGED <<isSuspended, runningProcesses, serverStartTime, consoleLogs,
                   appConsoleLogs, appProcessState, clients, tempDirs, procs,
                   runs, cleanups, now>>

\* POST /rename-file by a user with the right to edit files; `ok` is the
\* outcome of server.save()
RenameFile(filePath, newName, ok) ==
    nevents < MaxFileOps /\
    LET files == FilesOf(appServers)
        trimmedNewName == trim(newName)
        newFullFilePath == join(dirname(filePath), trimmedNewName)
        encodedOldFilePath == encodeFilePathKey(filePath)
        encodedNewFullFilePath == encodeFilePathKey(newFullFilePath)
        oldPrefix == encodedOldFilePath \o encodeFilePathKey(<<"/">>)
        newPrefix == encodedNewFullFilePath \o encodeFilePathKey(<<"/">>)
        isFile == Has(files, encodedOldFilePath)
        isDirectory == ~isFile /\ HasKeyUnder(files, oldPrefix)
        kind == IF isFile THEN "file" ELSE "directory"
        renamed == IF isFile
                   THEN Del(Put(files, encodedNewFullFilePath, files[encodedOldFilePath]),
                            encodedOldFilePath)
                   ELSE RenameKeys(files, {k \in DOMAIN files : StartsWith(k, oldPrefix)},
                                   oldPrefix, newPrefix)
    IN IF trimmedNewName = <<>> \/ Includes(newName, "/")
       THEN ok /\ FileStep("rename", filePath, newName, "invalid_name", "", files)
       ELSE IF ~isFile /\ ~isDirectory
       THEN ok /\ FileStep("rename", filePath, newName, "not_found", "", files)
       ELSE IF Has(files, encodedNewFullFilePath) \/ HasKeyUnder(files, newPrefix)
       THEN ok /\ FileStep("rename", filePath, newName, "exists", kind, files)
       ELSE IF ok THEN FileStep("rename", filePath, newName, "renamed", kind, renamed)
       ELSE FileStep("rename", filePath, newName, "error", kind, files)

\* Faulty variant: a key is listed when it starts with the directory path,
\* without the separator after it
ListEntries_NoSeparator(files, dir) ==
    LET currentPath == dir
        Shown == {filePath \in {decodeFilePathKey(k) : k \in DOMAIN files} :
                     /\ currentPath = <<>> \/ StartsWith(filePath, currentPath)
                     /\ Parts(Substring(filePath, Len(currentPath))) # <<>>}
        entryPath(filePath) ==
            LET entryName == Parts(Substring(filePath, Len(currentPath)))[1]
            IN IF currentPath # <<>> THEN currentPath \o <<"/">> \o entryName ELSE entryName
        decodedEntries == {entryPath(filePath) : filePath \in Shown}
        potentialDirs ==
            {entryPath(filePath) :
                filePath \in {q \in Shown : Len(Parts(Substring(q, Len(currentPath)))) > 1}}
    IN {[name |-> basename(e), isDir |-> e \in potentialDirs, relativePath |-> e] :
           e \in decodedEntries}

\* GET /files?dir=...: the entries of the listing, before they are sorted
ListEntries(files, dir) ==
    LET currentPath == dir
        Shown == {filePath \in {decodeFilePathKey(k) : k \in DOMAIN files} :
                     /\ currentPath = <<>> \/ StartsWith(filePath, currentPath \o <<"/">>)
                     /\ Parts(Substring(filePath, Len(currentPath))) # <<>>}
        entryPath(filePath) ==
            LET entryName == Parts(Substring(filePath, Len(currentPath)))[1]
            IN IF currentPath # <<>> THEN currentPath \o <<"/">> \o entryName ELSE entryName
        decodedEntries == {entryPath(filePath) : filePath \in Shown}
        potentialDirs ==
            {entryPath(filePath) :
                filePath \in {q \in Shown : Len(Parts(Substring(q, Len(currentPath)))) > 1}}
    IN {[name |-> basename(e), isDir |-> e \in potentialDirs, relativePath |-> e] :
           e \in decodedEntries}

ListFiles(dir) ==
    nevents < MaxFileOps /\
    FileStep("list", dir, <<>>, "listed", ListEntries(FilesOf(appServers), dir),
             FilesOf(appServers))

FileInit ==
    /\ appServers \in {SaveFiles(ServerRows, files) : files \in Stores}
    /\ isSuspended = [s \in Servers |-> FALSE]
    /\ runningProcesses = NoFn
    /\ serverStartTime = NoFn
    /\ consoleLogs = NoFn
    /\ appConsoleLogs = <<>>
    /\ appProcessState = <<>>
    /\ clients = NoFn
    /\ tempDirs = [k \in Keys |-> NoDir]
    /\ procs = NoFn
    /\ runs = <<>>
    /\ cleanups = {}
    /\ now = 1
    /\ nevents = 0
    /\ last = FileDid("init", <<>>, <<>>, "", "")

FileNext ==
    \/ \E filePath \in Paths, newName \in NewNames, ok \in BOOLEAN :
          RenameFile(filePath, newName, ok)
    \/ \E dir \in Paths \cup {<<>>} : ListFiles(dir)

FileSpec == FileInit /\ [][FileNext]_vars

\* ------------------------------------------------------ the path codec alone
\* encodeFilePathKey and decodeFilePathKey applied to any string of at most
\* MaxPathLen characters drawn from the dot and the characters of the token
MaxPathLen == 7

PathChars == {".", "_", "D", "O", "T"}

PathStrings == UNION {[1..n -> PathChars] : n \in 0..MaxPathLen}

\* str.includes(sub)
Contains(str, sub) ==
    \E i \in 0..(Len(str) - Len(sub)) : SubSeq(str, i + 1, i + Len(sub)) = sub

CodecRoundTrip(filePath) ==
    /\ last' = [op |-> "codec", path |-> filePath, key |-> encodeFilePathKey(filePath),
                back |-> decodeFilePathKey(encodeFilePathKey(filePath))]
    /\ UNCHANGED <<appServers, isSuspended, runningProcesses, serverStartTime,
                   consoleLogs, appConsoleLogs, appProcessState, clients, tempDirs,
                   procs, runs, cleanups, now, nevents>>

\* one path is encoded and decoded in a behaviour
CodecNext == last.op = "init" /\ \E filePath \in PathStrings : CodecRoundTrip(filePath)

CodecSpec == Init /\ [][CodecNext]_vars

\* ------------------------------------------------- servers and their users
\* /create-server, /add-user and /remove-user on the stored server rows
MaxServers == 2

ServerNames == {"n1", "n2", " "}

\* uuidv4(): an id no stored server has
NewIds == {"s2"}

\* server.save(): upsert of the row with the id of the document
SaveRow(rows, row) ==
    IF \E j \in 1..Len(rows) : rows[j].id = row.id
    THEN [j \in 1..Len(rows) |-> IF rows[j].id = row.id THEN row ELSE rows[j]]
    ELSE Append(rows, row)

ServerStep(op, k, actor, res, id, rows, susp) ==
    /\ last' = Did(op, k, actor, res, id)
    /\ appServers' = rows
    /\ isSuspended' = susp
    /\ UNCHANGED <<runningProcesses, serverStartTime, consoleLogs, appConsoleLogs,
                   appProcessState, clients, tempDirs, procs, runs, cleanups, now,
                   nevents>>

\* POST /create-server
CreateServer(actor, serverName) ==
    Len(appServers) < MaxServers /\
    LET free == {id \in NewIds : \A j \in 1..Len(appServers) : appServers[j].id # id}
        serverId == CHOOSE id \in free : TRUE
        existingServer == ServerFindOne(appServers, [name |-> serverName, ownerId |-> actor])
        newServer == [id |-> serverId, name |-> serverName, ownerId |-> actor,
                      users |-> [u \in {actor} |-> AllRights], files |-> NoFn]
    IN /\ free # {}
       /\ IF serverName = " "
          THEN ServerStep("create", <<actor, serverId>>, actor, "invalid_name", serverName,
                          appServers, isSuspended)
          ELSE IF DOMAIN existingServer # {}
          THEN ServerStep("create", <<actor, serverId>>, actor, "name_taken", serverName,
                          appServers, isSuspended)
          ELSE ServerStep("create", <<actor, serverId>>, actor, "created", serverName,
                          SaveRow(appServers, newServer), Put(isSuspended, serverId, FALSE))

\* the right to edit the users of a server
MayEditUsers(server, actor) ==
    \/ server.ownerId = actor
    \/ UserIsAdmin[actor]
    \/ actor \in DOMAIN server.users /\ server.users[actor].editUsers

\* POST /add-user: username is the name of an account or of nobody
AddUser(actor, target, s, username, editUsers) ==
    LET k == <<target, s>>
        access == ensureServerAccess(actor, target, s)
        server == ServerFindOne(appServers, [id |-> s])
        res == IF access # "ok" THEN access
               ELSE IF ~MayEditUsers(server, actor) THEN "forbidden"
               ELSE IF username \notin AppUsers THEN "no_user"
               ELSE IF username = server.ownerId THEN "is_owner"
               ELSE IF username \in DOMAIN server.users THEN "already_member"
               ELSE "added"
        rights == [editFiles |-> FALSE, editUsers |-> editUsers]
    IN ServerStep("add_user", k, actor, res, username,
                  IF res = "added"
                  THEN SaveRow(appServers, [server EXCEPT !.users = Put(@, username, rights)])
                  ELSE appServers,
                  isSuspended)

\* Faulty variant: the owner is not told apart from the other users
removeUserCheck_NoOwnerCheck(server, actor, targetUserId) ==
    IF ~MayEditUsers(server, actor) THEN "forbidden"
    ELSE IF targetUserId \notin DOMAIN server.users THEN "not_member"
    ELSE "removed"

\* the checks of /remove-user before the user is deleted from the map
removeUserCheck(server, actor, targetUserId) ==
    IF ~MayEditUsers(server, actor) THEN "forbidden"
    ELSE IF targetUserId \notin DOMAIN server.users THEN "not_member"
    ELSE IF targetUserId = server.ownerId THEN "is_owner"
    ELSE "removed"

\* POST /remove-user; `ok` is the outcome of server.save()
RemoveUser(actor, target, s, targetUserId, ok) ==
    LET k == <<target, s>>
        access == ensureServerAccess(actor, target, s)
        server == ServerFindOne(appServers, [id |-> s])
        res == IF access # "ok" THEN access ELSE removeUserCheck(server, actor, targetUserId)
    IN IF res = "removed" /\ ok
       THEN ServerStep("remove_user", k, actor, res, targetUserId,
                       SaveRow(appServers, [server EXCEPT !.users = Del(@, targetUserId)]),
                       isSuspended)
       ELSE ServerStep("remove_user", k, actor, IF res = "removed" THEN "error" ELSE res,
                       targetUserId, appServers, isSuspended)

\* the accounts that create servers, and the requests about a stored server as
\* (session user, body.userId, body.serverId), body.userId being its owner
Owners == {"u1", "u2"}

ServerRequests ==
    {<<a, appServers[j].ownerId, appServers[j].id>> : a \in AppUsers, j \in 1..Len(appServers)}

ServerNext ==
    \/ \E actor \in Owners, serverName \in ServerNames : CreateServer(actor, serverName)
    \/ \E q \in ServerRequests, username \in AppUsers \cup {"nobody"}, editUsers \in BOOLEAN :
          AddUser(q[1], q[2], q[3], username, editUsers)
    \/ \E q \in ServerRequests, targetUserId \in AppUsers, ok \in BOOLEAN :
          RemoveUser(q[1], q[2], q[3], targetUserId, ok)

ServerSpec == Init /\ [][ServerNext]_vars

\* ------------------------------------------------------------- properties
\* Every action records itself in `last`, so last' names the handler segment
\* a step executed: its operation, key, actor, outcome and run / process id.

LiveProcs(k) == {p \in DOMAIN procs : procs[p].key = k /\ procs[p].status = "alive"}

KeyViewers(cl, k) == {c \in DOMAIN cl : cl[c].userId = k[1] /\ cl[c].serverId = k[2]}

Granted(actor, k) == ensureServerAccess(actor, k[1], k[2]) = "ok"

LogOf(cl, k) == IF Has(cl, k) THEN cl[k] ELSE <<>>

\* the step in which run last'.id spawned its child process
SpawnStep ==
    /\ last'.id \in 1..Len(runs)
    /\ runs[last'.id].res # "spawned"
    /\ runs'[last'.id].res = "spawned"

\* C1: for every key at most one child process spawned for it is alive
\* (spawned and not yet exited) at any instant.
C1_AtMostOneLiveProcess ==
    \A k \in Keys : Cardinality(LiveProcs(k)) <= 1

\* C2: a start request for a key whose registry holds a handle is refused:
\* no start sequence begins, no process is spawned, the registry is unchanged.
C2_StartRefusedWhenRunning ==
    [][(last'.op = "start" /\ Has(runningProcesses, last'.key))
         => (/\ last'.res # "accepted"
             /\ runs' = runs
             /\ procs' = procs
             /\ runningProcesses' = runningProcesses)]_vars

\* C3: a start or restart request on a suspended server by an actor who is
\* not an administrator is refused: it begins no start sequence (the key stays
\* Stopped), spawns nothing and leaves the registry as it was.
C3_SuspendedCannotStart ==
    [][(/\ last'.op \in {"start", "restart"}
        /\ Has(isSuspended, last'.key[2]) /\ isSuspended[last'.key[2]]
        /\ ~UserIsAdmin[last'.actor])
         => (/\ last'.res = "suspended"
             /\ runs' = runs
             /\ procs' = procs
             /\ runningProcesses' = runningProcesses)]_vars

C3_Witness ==
    /\ last.op \in {"start", "restart"}
    /\ last.res = "suspended"
    /\ ~UserIsAdmin[last.actor]
    /\ Has(isSuspended, last.key[2]) /\ isSuspended[last.key[2]]

\* C4: when the close callback of a child process has run, the registry has no
\* handle for its key, the process state of the key is not-running with a null
\* start time and the line carrying the exit code is the newest line of the
\* key's console buffer; when the callback completes, that line has been sent
\* to every viewer of the key.
C4_ExitCleansUp ==
    [][/\ (last'.op = "close") =>
            LET k == last'.key
                p == last'.id
            IN /\ ~Has(runningProcesses', k)
               /\ jsonGetProcessState(appProcessState', k[1], k[2])
                    = [isRunning |-> FALSE, startTime |-> 0]
               /\ Len(consoleLogs'[k]) > 0
               /\ Last(consoleLogs'[k]).text = "closeMessage"
               /\ Last(consoleLogs'[k]).arg = last'.res
               /\ procs'[p].line = Last(consoleLogs'[k])
       /\ (last'.op = "close_done") =>
            LET k == last'.key
                p == last'.id
            IN \A c \in KeyViewers(clients', k) :
                 /\ Len(clients'[c].view) > 0
                 /\ Last(clients'[c].view) = procs[p].line
                 /\ procs[p].line.text = "closeMessage"
                 /\ procs[p].line.arg = last'.res]_vars

C4_Witness ==
    /\ last.op = "close_done"
    /\ KeyViewers(clients, last.key) # {}
    /\ ~Has(runningProcesses, last.key)
    /\ \A c \in KeyViewers(clients, last.key) : Last(clients[c].view).text = "closeMessage"

\* C5: a stop request on a key with a registry entry signals the registered
\* process and, while that process has not exited, has removed the registry
\* entry, set the process state to not-running and appended the stop line (not
\* of error or warning severity) to the console buffer and the durable log;
\* when the request returns the line has been sent to every viewer of the key.
\* (The request does not return when fs.removeSync throws: it ends in the
\* error handler before the broadcast.)
C5_StopIsImmediate ==
    [][(/\ last'.op = "stop"
        /\ Granted(last'.actor, last'.key)
        /\ Has(runningProcesses, last'.key))
         => LET k == last'.key
                p == last'.id
                rows == SelectRows(appConsoleLogs', k[1], k[2])
            IN /\ last'.res \in {"stopped", "threw"}
               /\ p = runningProcesses[k]
               /\ procs'[p].sig = "SIGTERM"
               /\ procs'[p].status = "alive"
               /\ ~Has(runningProcesses', k)
               /\ ~jsonGetProcessState(appProcessState', k[1], k[2]).isRunning
               /\ Last(consoleLogs'[k]).text = "stopMsg"
               /\ Last(consoleLogs'[k]).sev \notin {"console-log-error", "console-log-warn"}
               /\ Len(rows) > 0 /\ Last(rows).content = Last(consoleLogs'[k])
               /\ last'.res = "stopped" =>
                    \A c \in KeyViewers(clients', k) :
                        /\ Len(clients'[c].view) > 0
                        /\ Last(clients'[c].view).text = "stopMsg"]_vars

C5_Witness ==
    /\ last.op = "stop"
    /\ last.res = "stopped"
    /\ KeyViewers(clients, last.key) # {}
    /\ procs[last.id].status = "alive"
    /\ ~Has(runningProcesses, last.key)

\* C6: a stop request that passed the access check on a key without a
\* registry entry is answered "already stopped" and leaves the registry, the
\* process state rows and both console logs unchanged.
C6_StopWithoutEntry ==
    [][(/\ last'.op = "stop"
        /\ Granted(last'.actor, last'.key)
        /\ ~Has(runningProcesses, last'.key))
         => (/\ last'.res = "already_stopped"
             /\ runningProcesses' = runningProcesses
             /\ appProcessState' = appProcessState
             /\ consoleLogs' = consoleLogs
             /\ appConsoleLogs' = appConsoleLogs)]_vars

C6_Witness ==
    /\ last.op = "stop"
    /\ last.res = "already_stopped"
    /\ Has(consoleLogs, last.key)
    /\ appProcessState # <<>>

\* C7: a kill request that passed the access check on a key without a
\* registered process completes, appends exactly one line, the "was not
\* running" line of severity info, to the key's console buffer, sends it to
\* every viewer of the key and leaves the key without a registry entry.
C7_KillWithoutProcess ==
    [][(/\ last'.op = "kill"
        /\ Granted(last'.actor, last'.key)
        /\ ~Has(runningProcesses, last'.key))
         => LET k == last'.key
                line == Last(consoleLogs'[k])
            IN /\ last'.res = "not_running"
               /\ Has(consoleLogs', k) /\ Len(consoleLogs'[k]) > 0
               /\ line.text = "notRunningMsg"
               /\ line.sev = "console-log-info"
               /\ consoleLogs'[k] = trimLogs(Append(LogOf(consoleLogs, k), line))
               /\ \A c \in KeyViewers(clients', k) :
                    clients'[c].view = Append(clients[c].view, line)
               /\ ~Has(runningProcesses', k)
               /\ procs' = procs]_vars

C7_Witness ==
    /\ last.op = "kill"
    /\ last.res = "not_running"
    /\ KeyViewers(clients, last.key) # {}
    /\ \A c \in KeyViewers(clients, last.key) : Last(clients[c].view).text = "notRunningMsg"

C9_StateOverwritten ==
    [][/\ (/\ last'.op \in {"stop", "kill"}
           /\ Has(runningProcesses, last'.key)
           /\ last'.res \in {"stopped", "killed", "kill_failed"})
          => ~jsonGetProcessState(appProcessState', last'.key[1], last'.key[2]).isRunning
       /\ SpawnStep
          => jsonGetProcessState(appProcessState', last'.key[1], last'.key[2])
               = [isRunning |-> TRUE, startTime |-> serverStartTime'[last'.key]]]_vars

\* C10: a restart request on a key with a registered process signals that
\* process and removes its handle before the start sequence begins (the
\* sequence waits for the timer); on a key without one it begins the start
\* sequence only once a stale working directory has been dealt with: removed
\* when fs.remove succeeds, and otherwise removed again by the sequence itself.
\* When a start sequence spawns its process, the registry holds that handle
\* and the process state reports running with its start time.
C10_RestartStopsThenStarts ==
    [][/\ (last'.op = "restart" /\ Granted(last'.actor, last'.key)
             /\ Has(runningProcesses, last'.key))
          => LET k == last'.key
                 old == runningProcesses[k]
             IN /\ last'.res = "stopping"
                /\ procs'[old].sig = "SIGTERM"
                /\ ~Has(runningProcesses', k)
                /\ runs'[last'.id].via = "restart"
                /\ runs'[last'.id].pc = "r_delay"
       /\ (last'.op = "restart" /\ Granted(last'.actor, last'.key)
             /\ ~Has(runningProcesses, last'.key))
          => LET k == last'.key
             IN /\ last'.res = "accepted"
                /\ runs'[last'.id].pc = IF tempDirs[k].exists THEN "r_rm" ELSE "s_mkdir"
       /\ (last'.op = "restart_rm")
          => LET k == last'.key
             IN /\ last'.res = "ok" => ~tempDirs'[k].exists
                /\ runs'[last'.id].pc = IF tempDirs'[k].exists THEN "s_rm" ELSE "s_mkdir"
       /\ SpawnStep
          => LET k == last'.key
                 r == last'.id
             IN /\ Has(runningProcesses', k) /\ runningProcesses'[k] = r
                /\ procs'[r].status = "alive"
                /\ jsonGetProcessState(appProcessState', k[1], k[2])
                     = [isRunning |-> TRUE, startTime |-> serverStartTime'[k]]]_vars

\* the start sequence of a restart on a running key spawned the new process
\* while the old one, signalled, has not exited yet
C10_Witness ==
    /\ last.id \in 1..Len(runs)
    /\ runs[last.id].via = "restart"
    /\ runs[last.id].res = "spawned"
    /\ Has(runningProcesses, last.key) /\ runningProcesses[last.key] = last.id
    /\ \E old \in DOMAIN procs : old # last.id /\ procs[old].sig = "SIGTERM"

Range(seq) == {seq[i] : i \in 1..Len(seq)}

\* the lines recent(owner, server, N) can return for any N
DurableLines(rows, k) == jsonGetRecentConsoleLogs(rows, k[1], k[2], 0)

\* the step in which a start sequence passed its session boundary
StartBoundaryStep == last'.op = "start_mkdir" /\ last'.res = "ok"

\* the step in which /restart-server passed its session boundary
RestartBoundaryStep ==
    \/ last'.op = "restart_rm"
    \/ /\ last'.op = "restart_delay" \/ (last'.op = "restart" /\ last'.res = "accepted")
       /\ ~tempDirs[last'.key].exists

Newest(seq, n) ==
    IF Len(seq) > n THEN SubSeq(seq, Len(seq) - n + 1, Len(seq)) ELSE seq

\* the lines of a key in the durable log, in the order they were appended
AppendedLines(rows, k) ==
    LET mine == SelectRows(rows, k[1], k[2])
    IN [i \in 1..Len(mine) |-> mine[i].content]

\* C12: for every key and every limit >= 0, recent(owner, server, limit)
\* returns at most `limit` lines, exactly the newest lines appended for the
\* key, in the order they were appended.
C12_RecentReturnsNewest ==
    \A k \in Keys, limit \in 0..(MAX + 1) :
        LET recent == jsonGetRecentConsoleLogs(appConsoleLogs, k[1], k[2], limit)
        IN /\ Len(recent) <= limit
           /\ recent = Newest(AppendedLines(appConsoleLogs, k), limit)

\* C13: the durable console log is capped per key with oldest-first eviction:
\* a save for one key keeps the newest MAX lines of that key and leaves the
\* retained lines of every other key as they were.
C13_CapIsPerKey ==
    [][(last'.op = "save") =>
         LET k == last'.key
             mine == SelectRows(appConsoleLogs, k[1], k[2])
             mine2 == SelectRows(appConsoleLogs', k[1], k[2])
         IN /\ Len(mine2) > 0
            /\ mine2 = Newest(Append(mine, Last(mine2)), MAX)
            /\ \A o \in StoreKeys \ {k} :
                 SelectRows(appConsoleLogs', o[1], o[2])
                   = SelectRows(appConsoleLogs, o[1], o[2])]_vars

Min(a, b) == IF a < b THEN a ELSE b

\* C14: every console line appended for a key goes to both the in-memory
\* buffer and the durable store: the buffer and the durable log of a key hold
\* the same lines in the same order, up to what either has evicted at its old
\* end, and a non-empty buffer has a non-empty durable log.
C14_BufferMatchesDurable ==
    \A k \in Keys :
        Has(consoleLogs, k) =>
            LET mem == consoleLogs[k]
                dur == AppendedLines(appConsoleLogs, k)
                n == Min(Len(mem), Len(dur))
            IN /\ Len(mem) > 0 => Len(dur) > 0
               /\ Newest(mem, n) = Newest(dur, n)

\* how many lines of a log carry the given text
CountText(seq, text) == Cardinality({i \in 1..Len(seq) : seq[i].text = text})

\* the step in which run last'.id ended with the given outcome
EndsWith(res) ==
    /\ last'.id \in 1..Len(runs)
    /\ last'.op \in {"start_mkdir", "start_write", "start_userpkgs", "start_install",
                     "start_abort_rm"}
    /\ runs[last'.id].res # res
    /\ runs'[last'.id].res = res

\* C15: a start whose entry script (default index.js) is absent from the
\* materialized tree appends exactly one "entry script missing" line to the
\* console (buffer, durable log and viewers), spawns no process and leaves the
\* registry and the process state untouched; a start sequence goes on to the
\* install or to the spawn only when the entry script is in the tree.
C15_EntryScriptMissing ==
    [][/\ EndsWith("missing") =>
            LET k == last'.key
                r == last'.id
                base == IF last'.op = "start_mkdir" THEN <<>> ELSE consoleLogs[k]
            IN /\ runs'[r].mainFile \notin tempDirs'[k].files
               /\ Last(consoleLogs'[k]).text = "mainFileMissing"
               /\ Last(consoleLogs'[k]).arg = runs'[r].mainFile
               /\ CountText(consoleLogs'[k], "mainFileMissing")
                    = CountText(base, "mainFileMissing") + 1
               /\ Last(AppendedLines(appConsoleLogs', k)) = Last(consoleLogs'[k])
               /\ \A c \in KeyViewers(clients', k) :
                    Last(clients'[c].view) = Last(consoleLogs'[k])
               /\ procs' = procs
               /\ runningProcesses' = runningProcesses
               /\ appProcessState' = appProcessState
               /\ runs'[r].pc = "done"
       /\ (/\ last'.id \in 1..Len(runs)
           /\ last'.op \in {"start_mkdir", "start_write", "start_userpkgs"}
           /\ runs'[last'.id].pc = "s_install" \/ SpawnStep)
          => runs'[last'.id].mainFile \in tempDirs'[last'.key].files]_vars

\* the first start of a key found no entry script: one line, nothing spawned
C15_Witness ==
    /\ last.id = 1
    /\ runs[1].res = "missing"
    /\ runs[1].files = {}
    /\ procs = NoFn
    /\ ~Has(runningProcesses, last.key)
    /\ ~getProcessState(last.key).isRunning
    /\ CountText(consoleLogs[last.key], "mainFileMissing") = 1

\* the lines of a log that carry the given text
LinesWith(seq, text) == {seq[i] : i \in {j \in 1..Len(seq) : seq[j].text = text}}

\* C16: a failed (or timed out) install of the explicitly listed extra
\* packages appends an error line to the console and sends it to the viewers,
\* and the start goes on with the entry-script check: with the script and no
\* manifest in the tree the process is spawned and registered in that step,
\* with a manifest the full install begins, without the script the start ends
\* with the missing-script line; it is never aborted by that failure.
C16_ExtraPackagesTolerated ==
    [][(last'.op = "start_userpkgs" /\ last'.res = "failed") =>
         LET k == last'.key
             r == last'.id
             d == tempDirs'[k]
         IN /\ CountText(consoleLogs'[k], "userPkgsError")
                 = CountText(consoleLogs[k], "userPkgsError") + 1
            /\ \A l \in LinesWith(consoleLogs'[k], "userPkgsError") :
                 l.sev = "console-log-error"
            /\ \A c \in KeyViewers(clients', k) :
                 CountText(clients'[c].view, "userPkgsError")
                   = CountText(clients[c].view, "userPkgsError") + 1
            /\ runs'[r].res \notin {"aborted", "rejected"}
            /\ runs'[r].pc \in {"done", "s_install"}
            /\ IF ~(d.exists /\ runs'[r].mainFile \in d.files)
               THEN runs'[r].res = "missing" /\ procs' = procs
               ELSE IF "package.json" \in d.files
               THEN runs'[r].pc = "s_install" /\ procs' = procs
               ELSE /\ runs'[r].res = "spawned"
                    /\ Has(procs', r) /\ procs'[r].status = "alive"
                    /\ Has(runningProcesses', k) /\ runningProcesses'[k] = r
                    /\ jsonGetProcessState(appProcessState', k[1], k[2]).isRunning]_vars

\* the install of the extra packages failed and the process was spawned
C16_Witness ==
    /\ last.op = "start_userpkgs" /\ last.res = "failed"
    /\ runs[last.id].res = "spawned"
    /\ Has(runningProcesses, last.key) /\ runningProcesses[last.key] = last.id
    /\ CountText(consoleLogs[last.key], "userPkgsError") = 1

\* start sequences that ended without spawning
Unspawned == {"aborted", "missing", "rejected"}

\* C17: a failed (or timed out) full install of the dependency manifest is
\* fatal: its error line is appended to the console (buffer, durable log,
\* viewers), the sequence goes to its abort path and ends aborted, and neither
\* of the two steps spawns a process, touches the registry or writes the
\* process state; a sequence that ended without spawning has no process.
C17_ManifestInstallFatal ==
    [][/\ (last'.op = "start_install" /\ last'.res = "failed") =>
            LET k == last'.key
                r == last'.id
            IN /\ CountText(consoleLogs'[k], "installError")
                    = CountText(consoleLogs[k], "installError") + 1
               /\ \A l \in LinesWith(consoleLogs'[k], "installError") :
                    l.sev = "console-log-error"
               /\ CountText(AppendedLines(appConsoleLogs', k), "installError") >= 1
               /\ \A c \in KeyViewers(clients', k) :
                    CountText(clients'[c].view, "installError")
                      = CountText(clients[c].view, "installError") + 1
               /\ runs'[r].pc = "s_abort_rm" /\ runs'[r].res = "none"
               /\ procs' = procs
               /\ runningProcesses' = runningProcesses
               /\ appProcessState' = appProcessState
       /\ (last'.op = "start_abort_rm") =>
            /\ runs'[last'.id].res = "aborted" /\ runs'[last'.id].pc = "done"
            /\ procs' = procs
            /\ runningProcesses' = runningProcesses
            /\ appProcessState' = appProcessState
       /\ \A r \in 1..Len(runs') :
            runs'[r].res \in Unspawned => ~Has(procs', r)]_vars

\* the manifest install of the only start failed and the start ended aborted
C17_Witness ==
    /\ last.op = "start_abort_rm"
    /\ Len(runs) = 1
    /\ runs[1].res = "aborted"
    /\ CountText(consoleLogs[last.key], "installError") = 1
    /\ procs = NoFn
    /\ ~Has(runningProcesses, last.key)
    /\ ~getProcessState(last.key).isRunning

\* a step in which an awaited call of a start sequence failed, other than the
\* tolerated install of the extra packages and the removal of a stale directory
StartStepFailed ==
    /\ last'.op \in {"start_mkdir", "start_write", "start_install"}
    /\ last'.res = "failed"

\* C18: any exception in a start sequence other than the tolerated ones aborts
\* the start: an error line is appended to the console and sent to the viewers
\* of the key, the sequence goes on to remove the working directory and ends
\* aborted, it spawns nothing and leaves the registry alone, and the failure
\* does not escape the background operation.
C18_StartFailureAborts ==
    [][/\ StartStepFailed =>
            LET k == last'.key
                r == last'.id
            IN /\ Has(consoleLogs', k)
               /\ Len(consoleLogs'[k]) > 0
               /\ Last(consoleLogs'[k]).text = "startErrorMsg"
               /\ \A c \in KeyViewers(clients', k) :
                    /\ Len(clients'[c].view) > 0
                    /\ Last(clients'[c].view).text = "startErrorMsg"
               /\ runs'[r].res # "rejected"
               /\ runs'[r].pc = "s_abort_rm"
               /\ procs' = procs
               /\ runningProcesses' = runningProcesses
       /\ (last'.op = "start_abort_rm") =>
            /\ runs'[last'.id].res = "aborted"
            /\ last'.res = "ok" => ~tempDirs'[last'.key].exists
            /\ procs' = procs
            /\ runningProcesses' = runningProcesses]_vars

\* the newest line of the console buffer of key k after the step is `text`
Appended(k, text) ==
    /\ Has(consoleLogs', k)
    /\ Len(consoleLogs'[k]) > 0
    /\ Last(consoleLogs'[k]).text = text

\* C19: every terminal outcome of a lifecycle transition appends at least one
\* line to the console of the key: a successful start, a start that found no
\* entry script, an aborted start, a tolerated install failure, a stop, a kill
\* (with or without process, with or without signal failure), the exit of a
\* child and a child that could not be spawned.
C19_OutcomeHasLine ==
    [][/\ SpawnStep => Appended(last'.key, "startSuccessMsg")
       /\ EndsWith("missing") => Appended(last'.key, "mainFileMissing")
       /\ StartStepFailed => Appended(last'.key, "startErrorMsg")
       /\ (last'.op = "start_userpkgs" /\ last'.res = "failed") =>
            CountText(LogOf(consoleLogs', last'.key), "userPkgsError")
              = CountText(LogOf(consoleLogs, last'.key), "userPkgsError") + 1
       /\ (last'.op = "stop" /\ last'.res \in {"stopped", "threw"}) =>
            Appended(last'.key, "stopMsg")
       /\ (last'.op = "kill" /\ last'.res = "killed") => Appended(last'.key, "killMsg")
       /\ (last'.op = "kill" /\ last'.res = "kill_failed") =>
            Appended(last'.key, "killErrorMsg")
       /\ (last'.op = "kill" /\ last'.res = "not_running") =>
            Appended(last'.key, "notRunningMsg")
       /\ (last'.op = "close") => Appended(last'.key, "closeMessage")
       /\ (last'.op = "error") => Appended(last'.key, "spawnErrorMsg")]_vars

\* C20: a viewer attached to a key is first given the recent() history of the
\* key; thereafter, whenever a step changes the console buffer of the key, the
\* viewer has received the newest line of the buffer as its newest message,
\* and after a session boundary it displays exactly what the buffer holds.
C20_ViewerFollowsConsole ==
    [][/\ (last'.op = "attach") =>
            \A c \in DOMAIN clients' \ DOMAIN clients :
                clients'[c].view
                  = jsonGetRecentConsoleLogs(appConsoleLogs, clients'[c].userId,
                                             clients'[c].serverId, RecentLimit)
       /\ \A c \in DOMAIN clients \cap DOMAIN clients' :
            LET k == <<clients[c].userId, clients[c].serverId>>
            IN (/\ Has(consoleLogs', k)
                /\ LogOf(consoleLogs, k) # consoleLogs'[k]
                /\ Len(consoleLogs'[k]) > 0)
               => /\ Len(clients'[c].view) > 0
                  /\ Last(clients'[c].view) = Last(consoleLogs'[k])
       /\ (StartBoundaryStep \/ RestartBoundaryStep) =>
            \A c \in KeyViewers(clients', last'.key) :
                clients'[c].view = consoleLogs'[last'.key]]_vars

\* ---------------------------------------------------------------------- C21
\* C21: a line of input submitted by a viewer attached to a key is written to
\* the standard input of the child registered for that key; when no child is
\* registered the input is dropped and no state changes.
C21_InputForwarded ==
    [][(last'.op = "input") =>
         LET k == last'.key
         IN IF Has(runningProcesses, k)
            THEN LET p == runningProcesses[k]
                 IN procs'[p].stdin = Append(procs[p].stdin, last'.res)
            ELSE UNCHANGED <<appServers, isSuspended, runningProcesses, serverStartTime, consoleLogs,
                             appConsoleLogs, appProcessState, clients, tempDirs, procs,
                             runs, cleanups>>]_vars

\* ---------------------------------------------------------------------- C22
\* the stored server record is gone
Deleted(s) == ~Has(isSuspended, s)

\* a child of the key has been signalled or has failed and its close callback
\* has not finished yet
ExitPending(k) ==
    \E p \in DOMAIN procs :
        /\ procs[p].key = k
        /\ \/ procs[p].status = "closing"
           \/ procs[p].status = "failed"
           \/ procs[p].status = "alive" /\ procs[p].sig # "none"

\* C22: deleting a server cascades: once the server is deleted and the exit
\* events of its process have been handled, no process of the server is
\* registered or running, getProcessState returns the default and the console
\* log of the server is empty.
C22_DeleteCascades ==
    \A k \in Keys :
        (Deleted(k[2]) /\ ~ExitPending(k))
          => /\ ~Has(runningProcesses, k)
             /\ LiveProcs(k) = {}
             /\ jsonGetProcessState(appProcessState, k[1], k[2]) = [isRunning |-> FALSE, startTime |-> 0]
             /\ LogOf(consoleLogs, k) = <<>>
             /\ DurableLines(appConsoleLogs, k) = <<>>

\* ---------------------------------------------------------------------- C23
\* the encoded source and destination of the rename request recorded in rec
SourceKey(rec) == encodeFilePathKey(rec.path)

DestKey(rec) == encodeFilePathKey(join(dirname(rec.path), trim(rec.name)))

KeysUnder(files, key) == {k \in DOMAIN files : StartsWith(k, key \o <<"/">>)}

RenamedStep == last'.op = "rename" /\ last'.res = "renamed"

\* C23: a successful rename of a directory moves every key under
\* encode(oldPath) + '/' to the same suffix under the new prefix with its
\* content, leaves no key under the old prefix and leaves every other key as
\* it was; a successful rename of a file moves the one key of the file.
C23_RenameMovesKeys ==
    [][RenamedStep =>
         LET old == FilesOf(appServers)
             new == FilesOf(appServers')
             src == SourceKey(last')
             dst == DestKey(last')
             moved == IF last'.out = "file" THEN {src} ELSE KeysUnder(old, src)
             target(k) == dst \o Substring(k, Len(src))
         IN /\ moved # {}
            /\ \A k \in moved : Has(new, target(k)) /\ new[target(k)] = old[k]
            /\ \A k \in moved : ~Has(new, k)
            /\ last'.out = "directory" => KeysUnder(new, src) = {}
            /\ \A k \in DOMAIN old \ moved : Has(new, k) /\ new[k] = old[k]
            /\ DOMAIN new = (DOMAIN old \ moved) \cup {target(k) : k \in moved}]_vars

\* a directory holding two files was renamed while a third file lay outside it
C23_Witness ==
    /\ last.op = "rename" /\ last.res = "renamed" /\ last.out = "directory"
    /\ LET files == FilesOf(appServers)
           under == KeysUnder(files, DestKey(last))
       IN /\ Cardinality(under) = 2
          /\ DOMAIN files \ under # {}

\* ---------------------------------------------------------------------- C24
\* C24: a rename is rejected and the files of the server stay as they were
\* when a key exists at the destination, as a file or as a directory prefix,
\* or when the source path is neither a file nor a directory prefix.
C24_RenameRejected ==
    [][(last'.op = "rename") =>
         LET old == FilesOf(appServers)
             src == SourceKey(last')
             dst == DestKey(last')
             collision == Has(old, dst) \/ KeysUnder(old, dst) # {}
             absent == ~Has(old, src) /\ KeysUnder(old, src) = {}
         IN (collision \/ absent)
              => /\ last'.res \in {"exists", "not_found", "invalid_name"}
                 /\ FilesOf(appServers') = old]_vars

\* a directory was to be renamed to the name of another directory
C24_Witness ==
    /\ last.op = "rename" /\ last.res = "exists" /\ last.out = "directory"
    /\ KeysUnder(FilesOf(appServers), DestKey(last)) # {}
    /\ KeysUnder(FilesOf(appServers), SourceKey(last)) # {}
    /\ SourceKey(last) # DestKey(last)

\* ---------------------------------------------------------------------- C25
\* C25: for every relative path p that does not contain the token __DOT__,
\* decodeFilePathKey(encodeFilePathKey(p)) is p, the encoded key holds no
\* literal dot, and another such path does not encode to the same key (taken
\* here for the path the key decodes to).
C25_CodecRoundTrip ==
    (last.op = "codec" /\ ~Contains(last.path, DotToken))
      => /\ last.back = last.path
         /\ ~Includes(last.key, ".")
         /\ (last.back # last.path /\ ~Contains(last.back, DotToken))
              => encodeFilePathKey(last.back) # last.key

\* ---------------------------------------------------------------------- C26
\* the logical paths of a files map, and the segments of those below dir
LogicalPaths(files) == {decodeFilePathKey(k) : k \in DOMAIN files}

Below(files, dir) ==
    {Parts(q) : q \in {x \in LogicalPaths(files) :
        /\ Len(Parts(x)) > Len(Parts(dir))
        /\ SubSeq(Parts(x), 1, Len(Parts(dir))) = Parts(dir)}}

\* C26: the listing of a directory holds exactly one entry per distinct next
\* path segment of the keys below the directory, marked as a directory exactly
\* when some key continues below that segment; a key that only shares a string
\* prefix with the directory path is not listed.
C26_ListingIsNextSegments ==
    [][(last'.op = "list") =>
         LET below == Below(FilesOf(appServers), last'.path)
             d == Len(Parts(last'.path))
             segments == {q[d + 1] : q \in below}
         IN /\ {e.name : e \in last'.out} = segments
            /\ Cardinality(last'.out) = Cardinality(segments)
            /\ \A e \in last'.out :
                 e.isDir <=> \E q \in below : q[d + 1] = e.name /\ Len(q) > d + 1]_vars

\* directory a was listed: it holds a file and a directory, and a key under
\* a.b shares the string prefix "a" with it
C26_Witness ==
    /\ last.op = "list" /\ last.path = <<"a">>
    /\ \E e \in last.out : e.isDir
    /\ \E e \in last.out : ~e.isDir
    /\ \E q \in LogicalPaths(FilesOf(appServers)) : StartsWith(q, <<"a", ".">>)

\* ---------------------------------------------------------------------- C27
\* C27: the process state store is a key-value store per (ownerId, serverId):
\* get of an absent key is {isRunning: false, startTime: null}, get after
\* set(k, running, t) is {running, t}, get after clear(k) is the default, and
\* set or clear of one key leaves the record of every other key as it was.
C27_StateStoreIsKeyValue ==
    [][/\ \A k \in StoreKeys :
             SelectRows(appProcessState, k[1], k[2]) = <<>>
               => jsonGetProcessState(appProcessState, k[1], k[2])
                    = [isRunning |-> FALSE, startTime |-> 0]
       /\ (last'.op = "set_state")
            => jsonGetProcessState(appProcessState', last'.key[1], last'.key[2])
                 = [isRunning |-> last'.res, startTime |-> last'.id]
       /\ (last'.op = "clear_state")
            => /\ SelectRows(appProcessState', last'.key[1], last'.key[2]) = <<>>
               /\ jsonGetProcessState(appProcessState', last'.key[1], last'.key[2])
                    = [isRunning |-> FALSE, startTime |-> 0]
       /\ (last'.op \in {"set_state", "clear_state"})
            => \A k \in StoreKeys \ {last'.key} :
                 /\ SelectRows(appProcessState', k[1], k[2]) = SelectRows(appProcessState, k[1], k[2])
                 /\ jsonGetProcessState(appProcessState', k[1], k[2])
                      = jsonGetProcessState(appProcessState, k[1], k[2])]_vars

\* the record of the first stored key was set again, to running with a start
\* time, while another key holds a record
C27_Witness ==
    /\ last.op = "set_state" /\ last.res = TRUE /\ last.id > 0
    /\ Len(appProcessState) = 2
    /\ <<appProcessState[1].userId, appProcessState[1].serverId>> = last.key
    /\ jsonGetProcessState(appProcessState, last.key[1], last.key[2])
         = [isRunning |-> TRUE, startTime |-> last.id]

\* ---------------------------------------------------------------------- C28
\* C28: server names are unique per owner: no owner has two stored servers
\* with the same name.
C28_NamesUniquePerOwner ==
    \A i, j \in 1..Len(appServers) :
        (i # j /\ appServers[i].ownerId = appServers[j].ownerId)
          => appServers[i].name # appServers[j].name

\* ---------------------------------------------------------------------- C29
\* C29: no remove-user request, whoever issues it, takes the owner of a server
\* out of the users map of the server; a remove-user request that targets the
\* owner leaves the map as it was.
C29_OwnerStaysInUsers ==
    [][(last'.op = "remove_user") =>
         \A j \in 1..Len(appServers) :
             LET server == appServers[j]
                 after == ServerFindOne(appServers', [id |-> server.id])
             IN /\ DOMAIN after # {}
                /\ server.ownerId \in DOMAIN server.users => server.ownerId \in DOMAIN after.users
                /\ (last'.key[2] = server.id /\ last'.id = server.ownerId)
                     => after.users = server.users]_vars

\* a user with the right to edit users, who is neither the owner nor an
\* administrator, asked for the removal of the owner and was refused
C29_Witness ==
    /\ last.op = "remove_user" /\ last.res = "is_owner"
    /\ ~UserIsAdmin[last.actor]
    /\ LET server == ServerFindOne(appServers, [id |-> last.key[2]])
       IN /\ last.actor # server.ownerId
          /\ last.id = server.ownerId
          /\ server.ownerId \in DOMAIN server.users

\* ---------------------------------------------------------------------- C30
\* C30: a start request is acted on only when the key is Stopped: while a start
\* sequence of a key is preparing or installing (from the removal of the stale
\* directory to the manifest install, no handle registered yet), no second
\* start sequence of the same key is in those steps.
C30_OneStartSequencePerKey ==
    \A k \in Keys :
        Cardinality({r \in 1..Len(runs) :
            /\ runs[r].key = k
            /\ runs[r].pc \in {"s_rm", "s_mkdir", "s_write", "s_userpkgs", "s_install"}}) <= 1

\* ---------------------------------------------------------------------- C31
\* start sequence r is in its active session: its files are materialized and
\* it has not spawned yet, or its child is alive and was not signalled
ActiveSession(rs, ps, r) ==
    \/ rs[r].pc \in {"s_userpkgs", "s_install"}
    \/ rs[r].res = "spawned" /\ ps[r].status = "alive" /\ ps[r].sig = "none"

\* C31: during the active session of a start its working directory is its own:
\* the cleanup that follows the exit or spawn error of an earlier child, or an
\* earlier kill request, never deletes the directory of a later start.
C31_DirOwnedBySession ==
    [][\A r \in 1..Len(runs) :
         (/\ ActiveSession(runs, procs, r) /\ ActiveSession(runs', procs', r)
          /\ tempDirs[runs[r].key].exists
          /\ last'.key = runs[r].key
          /\ \/ last'.op \in {"close_done", "error"} /\ last'.id < r
             \/ last'.op = "kill_cleanup")
           => tempDirs'[runs[r].key].exists]_vars

\* ---------------------------------------------------------------------- C32
\* C32: between handler segments the in-memory console buffer of every key
\* holds at most maxLogSize lines, whichever path appended the last line.
C32_BufferBounded ==
    \A k \in Keys : Len(LogOf(consoleLogs, k)) <= maxLogSize

\* ---------------------------------------------------------------------- C35
\* C35: the close or error callback of a child cleans up its own session only:
\* when the registry holds the handle of another, later registered child of
\* the key, the callback leaves that handle registered and leaves the
\* ProcessState record of the key as it was.
C35_CallbackOwnSessionOnly ==
    [][(/\ last'.op \in {"close", "error"}
        /\ Has(runningProcesses, last'.key)
        /\ runningProcesses[last'.key] # last'.id)
       => /\ Has(runningProcesses', last'.key)
          /\ runningProcesses'[last'.key] = runningProcesses[last'.key]
          /\ jsonGetProcessState(appProcessState', last'.key[1], last'.key[2])
               = getProcessState(last'.key)]_vars

Stale(k) == getProcessState(k).isRunning /\ ~Has(runningProcesses, k)

\* C37: a stale ProcessState record can be repaired by the user: a stop or a
\* kill request that passes the access check on a key whose record is stale
\* leaves the record of that key reporting not-running.
C37_StopOrKillRepairsStale ==
    [][(/\ last'.op \in {"stop", "kill"}
        /\ last'.res \in {"already_stopped", "not_running"}
        /\ Stale(last'.key))
       => ~jsonGetProcessState(appProcessState', last'.key[1], last'.key[2]).isRunning]_vars

\* =================================================== the file tree requests
\* The requests that change the files map of one server, from an empty map.
\* A rename is bounded by MaxFileOps as before; the other requests advance
\* `now`, and at most MaxTreeOps of them run in a behaviour.
MaxTreeOps == 3

\* path.join(dir, name) for the directory of a request (empty at the root)
\* and a name without separators
joinDir(dir, name) == IF dir = <<>> THEN name ELSE join(dir, name)

\* the directories a request may name: the root and the paths above the
\* deepest level
Dirs == {<<>>} \cup UNION {PathsOfDepth(n) : n \in 1..(MaxDepth - 1)}

\* a create or delete request ran
TreeStep(op, path, name, res, out, files) ==
    /\ now' = now + 1
    /\ last' = FileDid(op, path, name, res, out)
    /\ appServers' = SaveFiles(appServers, files)
    /\ UNCHANGED <<isSuspended, runningProcesses, serverStartTime, consoleLogs,
                   appConsoleLogs, appProcessState, clients, tempDirs, procs,
                   runs, cleanups, nevents>>

\* POST /create-file by a user with the right to edit files; `ok` is the
\* outcome of server.save(); the new file is empty
CreateFile(dir, fileName, ok) ==
    now <= MaxTreeOps /\
    LET files == FilesOf(appServers)
        newFilePath == joinDir(dir, fileName)
        encodedNewFilePath == encodeFilePathKey(newFilePath)
    IN IF Has(files, encodedNewFilePath)
       THEN ok /\ TreeStep("create_file", dir, fileName, "exists", "", files)
       ELSE IF ok
       THEN TreeStep("create_file", dir, fileName, "created", "file",
                     Put(files, encodedNewFilePath, <<>>))
       ELSE TreeStep("create_file", dir, fileName, "error", "", files)

\* POST /create-folder: nothing is stored for an empty folder
CreateFolder(dir, folderName) ==
    now <= MaxTreeOps /\
    LET files == FilesOf(appServers)
        newFolderPath == joinDir(dir, folderName)
        encodedFolderPath == encodeFilePathKey(newFolderPath)
        prefix == encodedFolderPath \o encodeFilePathKey(<<"/">>)
    IN IF Has(files, encodedFolderPath) \/ HasKeyUnder(files, prefix)
       THEN TreeStep("create_folder", dir, folderName, "exists", "", files)
       ELSE TreeStep("create_folder", dir, folderName, "created", "directory", files)

\* GET /delete-file: the key itself and every key under it; `ok` is the
\* outcome of server.save()
DeleteFile(filePath, ok) ==
    now <= MaxTreeOps /\
    LET files == FilesOf(appServers)
        encodedFilePath == encodeFilePathKey(filePath)
        prefix == encodedFilePath \o encodeFilePathKey(<<"/">>)
        fileExists == Has(files, encodedFilePath)
        dirExists == HasKeyUnder(files, prefix)
        keysToDelete == {fp \in DOMAIN files : StartsWith(fp, prefix)}
        kept == (DOMAIN files \ keysToDelete) \ {encodedFilePath}
    IN IF ~fileExists /\ ~dirExists
       THEN ok /\ TreeStep("delete", filePath, <<>>, "not_found", "", files)
       ELSE IF ok
       THEN TreeStep("delete", filePath, <<>>, "deleted", "", [k \in kept |-> files[k]])
       ELSE TreeStep("delete", filePath, <<>>, "error", "", files)

\* a server without files
TreeInit ==
    /\ appServers = SaveFiles(ServerRows, NoFn)
    /\ isSuspended = [s \in Servers |-> FALSE]
    /\ runningProcesses = NoFn
    /\ serverStartTime = NoFn
    /\ consoleLogs = NoFn
    /\ appConsoleLogs = <<>>
    /\ appProcessState = <<>>
    /\ clients = NoFn
    /\ tempDirs = [k \in Keys |-> NoDir]
    /\ procs = NoFn
    /\ runs = <<>>
    /\ cleanups = {}
    /\ now = 1
    /\ nevents = 0
    /\ last = FileDid("init", <<>>, <<>>, "", "")

TreeNext ==
    \/ \E dir \in Dirs, fileName \in Names, ok \in BOOLEAN : CreateFile(dir, fileName, ok)
    \/ \E dir \in Dirs, folderName \in Names : CreateFolder(dir, folderName)
    \/ \E filePath \in Paths, ok \in BOOLEAN : DeleteFile(filePath, ok)
    \/ \E filePath \in Paths, newName \in NewNames, ok \in BOOLEAN :
          RenameFile(filePath, newName, ok)

TreeSpec == TreeInit /\ [][TreeNext]_vars

\* ---------------------------------------------------------------------- C38
\* C38: after any sequence of create-file, create-folder, rename and delete
\* requests no logical path is both a file and a directory: the files map
\* never holds a key together with a key that has it, followed by '/', as a
\* prefix.
C38_NoFileAndDirectory ==
    \A k \in DOMAIN FilesOf(appServers) :
        ~HasKeyUnder(FilesOf(appServers), k \o encodeFilePathKey(<<"/">>))

\* ============================================== two servers of one owner
\* The lifecycle of two servers of the same owner side by side: the requests
\* of the owner, the start sequences, the child events and a viewer that
\* attaches to either key.
FrameServers == {"s1", "s2"}
FrameOwner == "u1"
FrameKeys == {<<FrameOwner, s>> : s \in FrameServers}

FrameRows ==
    <<[id |-> "s1", name |-> "n1", ownerId |-> FrameOwner,
       users |-> [u \in {FrameOwner} |-> AllRights], files |-> NoFn],
      [id |-> "s2", name |-> "n2", ownerId |-> FrameOwner,
       users |-> [u \in {FrameOwner} |-> AllRights], files |-> NoFn]>>

\* the server records read by the start sequences: an entry script alone, or
\* an entry script with a manifest and extra packages
FrameConfigs ==
    {cfg \in StartConfigs : cfg.packages = ("package.json" \in cfg.files) /\ cfg.files # {}}

FrameInit ==
    /\ appServers = FrameRows
    /\ isSuspended = [s \in FrameServers |-> FALSE]
    /\ runningProcesses = NoFn
    /\ serverStartTime = NoFn
    /\ consoleLogs = NoFn
    /\ appConsoleLogs = <<>>
    /\ appProcessState = <<>>
    /\ clients = NoFn
    /\ tempDirs = [k \in FrameKeys |-> NoDir]
    /\ procs = NoFn
    /\ runs = <<>>
    /\ cleanups = {}
    /\ now = 1
    /\ nevents = 0
    /\ last = Did("init", <<"", "">>, "", "", 0)

FrameNext ==
    \/ \E s \in FrameServers : StartServer(FrameOwner, FrameOwner, s)
    \/ \E s \in FrameServers : RestartServer(FrameOwner, FrameOwner, s)
    \/ \E s \in FrameServers, ok \in BOOLEAN : StopServer(FrameOwner, FrameOwner, s, ok)
    \/ \E s \in FrameServers, ok \in BOOLEAN : KillServer(FrameOwner, FrameOwner, s, ok)
    \/ \E r \in 1..MaxRuns : RestartDelay(r)
    \/ \E r \in 1..MaxRuns, ok \in BOOLEAN : RestartRm(r, ok)
    \/ \E r \in 1..MaxRuns, ok \in BOOLEAN : StartRm(r, ok)
    \/ \E r \in 1..MaxRuns, ok \in BOOLEAN, cfg \in FrameConfigs : StartMkdir(r, ok, cfg)
    \/ \E r \in 1..MaxRuns, ok \in BOOLEAN : StartWrite(r, ok)
    \/ \E r \in 1..MaxRuns, ok \in BOOLEAN, out \in NpmOutputs : StartUserPkgs(r, ok, out)
    \/ \E r \in 1..MaxRuns, ok \in BOOLEAN, out \in NpmOutputs : StartInstall(r, ok, out)
    \/ \E r \in 1..MaxRuns, ok \in BOOLEAN : StartAbortRm(r, ok)
    \/ \E c \in cleanups, ok \in BOOLEAN : KillCleanup(c, ok)
    \/ \E p \in 1..MaxRuns, log \in OutputLogs : ChildOutput(p, log)
    \/ \E p \in 1..MaxRuns, code \in ExitCodes \cup {"null", "-2"} : ChildClose(p, code)
    \/ \E p \in 1..MaxRuns, ok \in BOOLEAN : ChildCloseDone(p, ok)
    \/ \E p \in 1..MaxRuns : ChildError(p)
    \/ \E c \in ClientIds, k \in FrameKeys : ViewerAttach(c, k[1], k[2])

FrameSpec == FrameInit /\ [][FrameNext]_vars

\* ---------------------------------------------------------------------- C33
\* what the registry, the ProcessState store and the file system hold for key k
KeyState(rp, ps, dirs, k) ==
    [handle |-> IF Has(rp, k) THEN {rp[k]} ELSE {},
     rows |-> SelectRows(ps, k[1], k[2]),
     dir |-> dirs[k]]

\* C33: a lifecycle request, a step of a start sequence or a child event of
\* one key leaves the registry entry, the ProcessState record and the working
\* directory of every other key unchanged.
C33_OtherKeysUntouched ==
    [][last'.op # "attach" =>
         \A k \in FrameKeys \ {last'.key} :
            KeyState(runningProcesses', appProcessState', tempDirs', k)
              = KeyState(runningProcesses, appProcessState, tempDirs, k)]_vars

\* a stop request has removed the registry entry and the directory of its key
\* and reset its record while another key has a registered handle, a record
\* that reports it running and a working directory
C33_Witness ==
    \E k \in FrameKeys \ {last.key} :
        /\ last.op = "stop" /\ last.res = "stopped"
        /\ ~Has(runningProcesses, last.key)
        /\ Has(runningProcesses, k)
        /\ getProcessState(k).isRunning
        /\ tempDirs[k].exists

\* ---------------------------------------------------------------------- C39
\* C39: a viewer attached with (ownerId, serverId) receives only what belongs
\* to that key: the history replayed at the attachment consists of durable
\* rows of that key, and afterwards its view changes only in steps of that key.
C39_ViewerSeesOwnKeyOnly ==
    [][\A c \in DOMAIN clients' :
         LET k == <<clients'[c].userId, clients'[c].serverId>>
         IN IF ~Has(clients, c)
            THEN \A i \in 1..Len(clients'[c].view) :
                    \E j \in 1..Len(appConsoleLogs) :
                       /\ appConsoleLogs[j].userId = k[1]
                       /\ appConsoleLogs[j].serverId = k[2]
                       /\ appConsoleLogs[j].content = clients'[c].view[i]
            ELSE clients'[c].view # clients[c].view => last'.key = k]_vars

\* a viewer of one key holds lines of its key while a start sequence of the
\* other key has just broadcast the clear sentinel and its first line
C39_Witness ==
    \E c \in DOMAIN clients :
        /\ <<clients[c].userId, clients[c].serverId>> \in FrameKeys \ {last.key}
        /\ clients[c].view # <<>>
        /\ last.op = "start_mkdir" /\ last.res = "ok"
        /\ \E j \in 1..Len(appConsoleLogs) :
              appConsoleLogs[j].userId = last.key[1] /\ appConsoleLogs[j].serverId = last.key[2]

\* =========================================== the start sequences run to the end
\* The start, restart and stop requests of the owner, the start sequences and
\* the child exits, with the scheduling of the event loop: a pending
\* continuation of a start sequence runs once its awaited call has settled, and
\* every awaited call settles (fs calls return or fail, the installs return,
\* fail or hit their 5 minute timeout).  Requests and failures are events of
\* the budget; an install that settles is not.
LiveOwner == "u1"

\* `npm install <packages> --save` settled
UserPkgsSettled(r, ok, out) ==
    /\ r \in 1..Len(runs) /\ runs[r].pc = "s_userpkgs"
    /\ Fault(ok)
    /\ ok \/ out = {}
    /\ Commit(AfterUserPkgs(World, r, ok, out))
    /\ last' = Did("start_userpkgs", runs[r].key, "", IF ok THEN "ok" ELSE "failed", r)

\* `npm install` settled
InstallSettled(r, ok, out) ==
    /\ r \in 1..Len(runs) /\ runs[r].pc = "s_install"
    /\ Fault(ok)
    /\ ok \/ out = {}
    /\ Commit(AfterInstall(World, r, ok, out))
    /\ last' = Did("start_install", runs[r].key, "", IF ok THEN "ok" ELSE "failed", r)

\* the pending continuation of start sequence r runs
Continue(r) ==
    \/ RestartDelay(r)
    \/ \E ok \in BOOLEAN : RestartRm(r, ok)
    \/ \E ok \in BOOLEAN : StartRm(r, ok)
    \/ \E ok \in BOOLEAN, cfg \in FrameConfigs : StartMkdir(r, ok, cfg)
    \/ \E ok \in BOOLEAN : StartWrite(r, ok)
    \/ \E ok \in BOOLEAN, out \in NpmOutputs : UserPkgsSettled(r, ok, out)
    \/ \E ok \in BOOLEAN, out \in NpmOutputs : InstallSettled(r, ok, out)
    \/ \E ok \in BOOLEAN : StartAbortRm(r, ok)

LiveNext ==
    \/ \E s \in Servers : StartServer(LiveOwner, ServerOwner[s], s)
    \/ \E s \in Servers : RestartServer(LiveOwner, ServerOwner[s], s)
    \/ \E s \in Servers, ok \in BOOLEAN : StopServer(LiveOwner, ServerOwner[s], s, ok)
    \/ \E r \in 1..MaxRuns : Continue(r)
    \/ \E p \in 1..MaxRuns, code \in ExitCodes \cup {"null", "-2"} : ChildClose(p, code)
    \/ \E p \in 1..MaxRuns, ok \in BOOLEAN : ChildCloseDone(p, ok)

LiveSpec == Init /\ [][LiveNext]_vars /\ \A r \in 1..MaxRuns : WF_vars(Continue(r))

\* ---------------------------------------------------------------------- C34
\* C34: every accepted start eventually finishes: its start sequence reaches
\* its end, and when it ends with a spawned child that child is registered for
\* the key and the ProcessState record reports the key running.
C34_StartFinishes ==
    /\ \A r \in 1..MaxRuns :
          (r <= Len(runs)) ~> (r <= Len(runs) /\ runs[r].pc = "done")
    /\ [][\A r \in 1..Len(runs') :
            (/\ runs'[r].pc = "done" /\ runs'[r].res = "spawned"
             /\ r > Len(runs) \/ runs[r].pc # "done")
            => /\ Has(runningProcesses', runs'[r].key)
               /\ runningProcesses'[runs'[r].key] = r
               /\ jsonGetProcessState(appProcessState', runs'[r].key[1],
                                      runs'[r].key[2]).isRunning]_vars

\* a start sequence went through both installs and ended with its child
\* spawned, and another one ended without a child
C34_Witness ==
    /\ last.op = "start_install" /\ last.res = "ok"
    /\ runs[last.id].pc = "done" /\ runs[last.id].res = "spawned"
    /\ \E r \in 1..Len(runs) : runs[r].pc = "done" /\ runs[r].res # "spawned"
====
